---- MODULE Spec2Model ----
(***************************************************************************)
(* State-machine model of fown's archive file commands                     *)
(* (src/src/fown/cli/file.py): the interactive navigation loops            *)
(* navigate_and_download / navigate_and_delete, the recursive walks        *)
(* download_directory / delete_directory_recursive and upload_directory.   *)
(*                                                                         *)
(* A path is the sequence of its segments ("files/d/a" is                  *)
(* <<"files","d","a">>); a typed line is the sequence of its characters.   *)
(* The remote repository is a map from file paths to blob shas;            *)
(* directories are implicit, as in the GitHub contents API.                *)
(*                                                                         *)
(* A second specification, SpecSync, models the labels sync command        *)
(* (src/src/fown/cli/label.py).                                            *)
(***************************************************************************)
EXTENDS Integers, Sequences, FiniteSets, TLC

\* ---- bounds of the model ----
MaxDepth == 2          \* nesting of remote directories below "files"
MaxInputs == 3         \* lines typed at the selection prompt in one session
MaxMutations == 1      \* out-of-band changes of the remote repository
LocalDepth == 1        \* nesting of the uploaded local directory
MaxLabels == 2         \* labels in one label definition file
MaxLabelFiles == 2     \* .json files in labels/ of the archive repository

\* ---- fixed vocabulary ----
Root == <<"files">>
FileNames == {"a", "z"}
DirName == "d"
NameOrder == <<"a", "d", "z">>
UploadName == "proj"
NonePath == <<"None">>
NoItem == [name |-> "", path |-> <<>>, type |-> "none", sha |-> 0]
NoWrite == [path |-> <<>>, content |-> 0]
\* an option that is not given
NoOption == [given |-> FALSE, labels |-> <<>>]
Digits == <<"0", "1", "2", "3", "4", "5", "6", "7", "8", "9">>
Inputs == { <<"q">>, <<" ", "Q">>, <<"b">>, <<"0">>, <<"1">>, <<"2">>,
            <<"3">>, <<"x">>, <<"sup2">> }

DirPath(j) == Root \o [i \in 1..j |-> DirName]
AllDirs == { DirPath(j) : j \in 0..MaxDepth }
AllFiles == { Append(d, n) : d \in AllDirs, n \in FileNames }
LocalDir(j) == [i \in 1..j |-> DirName]
AllLocalDirs == { LocalDir(j) : j \in 0..LocalDepth }
AllLocalFiles == { Append(d, n) : d \in AllLocalDirs, n \in FileNames }

IsPrefix(p, q) == Len(p) <= Len(q) /\ SubSeq(q, 1, Len(p)) = p
Restrict(f, S) == [x \in S |-> f[x]]
EmptyMap == [x \in {} |-> 0]

\* ---- pathlib ----
\* a "back" that always returns to the top directory
ParentPath_top(p) == Root
\* Path(p).parent
ParentPath(p) == SubSeq(p, 1, Len(p) - 1)
\* Path(p).name
BaseName(p) == IF p = <<>> THEN "" ELSE p[Len(p)]

\* ---- the remote contents API behind make_github_api_request ----
FileEntry(s, p) == [name |-> BaseName(p), path |-> p, type |-> "file", sha |-> s[p]]
DirEntry(p) == [name |-> BaseName(p), path |-> p, type |-> "dir", sha |-> 0]
IsRemoteDir(s, p) == \E f \in DOMAIN s : Len(f) > Len(p) /\ IsPrefix(p, f)

RECURSIVE ListFrom(_, _, _)
ListFrom(s, p, k) ==
    IF k > Len(NameOrder) THEN <<>>
    ELSE LET c == Append(p, NameOrder[k])
             e == IF c \in DOMAIN s THEN <<FileEntry(s, c)>>
                  ELSE IF IsRemoteDir(s, c) THEN <<DirEntry(c)>>
                  ELSE <<>>
         IN e \o ListFrom(s, p, k + 1)

\* GET contents/{path}: the entries of a directory; an error (404) otherwise
RemoteGetDir(s, p) == ListFrom(s, p, 1)
\* DELETE contents/{path} with a sha
RemoteDeleteResult(s, p, sha) ==
    IF p \notin DOMAIN s THEN "NotFound"
    ELSE IF s[p] # sha THEN "PreconditionFailed"
    ELSE "ok"
RemoteDelete(s, p, sha) ==
    IF RemoteDeleteResult(s, p, sha) = "ok" THEN Restrict(s, DOMAIN s \ {p}) ELSE s
\* PUT contents/{path}
RemotePut(s, p, content) == [x \in DOMAIN s \cup {p} |-> IF x = p THEN content ELSE s[x]]

ListCall(p, ok) == [op |-> "list", path |-> p, sha |-> 0, ok |-> ok]
ReadCall(p, ok) == [op |-> "read", path |-> p, sha |-> 0, ok |-> ok]
DeleteCall(p, sha, ok) == [op |-> "delete", path |-> p, sha |-> sha, ok |-> ok]
WriteCall(p, ok) == [op |-> "write", path |-> p, sha |-> 0, ok |-> ok]
Msg(m, a) == [msg |-> m, arg |-> a]

\* GET contents/{path}: a list for a directory, a dict for a file, and a failed
\* request (404, which make_github_api_request turns into SystemExit) otherwise
RemoteGet(s, p) ==
    IF p \in DOMAIN s THEN [kind |-> "dict", entries |-> <<>>]
    ELSE IF IsRemoteDir(s, p) THEN [kind |-> "list", entries |-> RemoteGetDir(s, p)]
    ELSE [kind |-> "SystemExit", entries |-> <<>>]

\* list_archive_files: the entries when the response is a list; [] when it is
\* not, and [] again when the request fails (except SystemExit: return [])
list_archive_files(s, p) ==
    LET files_data == RemoteGet(s, p) IN
    IF files_data.kind = "list" THEN files_data.entries
    ELSE IF files_data.kind = "SystemExit" THEN <<>>
    ELSE <<>>

\* ---- str.strip().lower(), str.isdigit(), int() ----
Lower(c) == IF c = "Q" THEN "q" ELSE IF c = "B" THEN "b" ELSE c
RECURSIVE LStrip(_)
LStrip(s) == IF s # <<>> /\ Head(s) = " " THEN LStrip(Tail(s)) ELSE s
RECURSIVE RStrip(_)
RStrip(s) == IF s # <<>> /\ s[Len(s)] = " " THEN RStrip(SubSeq(s, 1, Len(s) - 1)) ELSE s
strip_lower(s) == LET t == RStrip(LStrip(s)) IN [i \in 1..Len(t) |-> Lower(t[i])]
DigitValue(c) == (CHOOSE i \in 1..Len(Digits) : Digits[i] = c) - 1
IsDecimal(c) == \E i \in 1..Len(Digits) : Digits[i] = c
\* str.isdigit() also accepts characters int() rejects (superscript two)
isdigit(s) == s # <<>> /\ \A i \in 1..Len(s) : IsDecimal(s[i]) \/ s[i] = "sup2"
IntFails(s) == \E i \in 1..Len(s) : ~IsDecimal(s[i])
RECURSIVE int(_)
int(s) == IF s = <<>> THEN 0 ELSE 10 * int(SubSeq(s, 1, Len(s) - 1)) + DigitValue(s[Len(s)])

\* the value None of an Optional[int]
NoIndex == 0 - 1
\* items[k], Python's indexing from 0, negative k counting from the end
PyIndex(seq, k) == IF k < 0 THEN seq[Len(seq) + k + 1] ELSE seq[k + 1]

\* a range check that starts at 0 instead of 1
validate_user_choice_from0(choice, items_length) ==
    IF ~isdigit(choice) THEN NoIndex
    ELSE IF IntFails(choice) THEN NoIndex
    ELSE IF 0 <= int(choice) /\ int(choice) <= items_length THEN int(choice)
    ELSE NoIndex
\* _validate_user_choice: the index, or None
validate_user_choice(choice, items_length) ==
    IF ~isdigit(choice) THEN NoIndex
    ELSE IF IntFails(choice) THEN NoIndex
    ELSE IF 1 <= int(choice) /\ int(choice) <= items_length THEN int(choice)
    ELSE NoIndex
validate_user_choice_msg(choice, items_length) ==
    IF ~isdigit(choice) THEN "warn_not_digit"
    ELSE IF IntFails(choice) THEN "warn_value_error"
    ELSE "warn_out_of_range"
\* _validate_delete_choice: the same checks, duplicated for the delete loop
validate_delete_choice(choice, items_length) ==
    IF ~isdigit(choice) THEN NoIndex
    ELSE IF IntFails(choice) THEN NoIndex
    ELSE IF 1 <= int(choice) /\ int(choice) <= items_length THEN int(choice)
    ELSE NoIndex

\* ---- the branch conditions of the two navigation loops ----
\* a quit command spelled out in full
IsQuit_word(choice) == choice = <<"q", "u", "i", "t">>
IsQuit(choice) == choice = <<"q">>
IsBack(choice) == choice = <<"b">>
\* a root test against the wrong constant
AtRoot_scripts(p) == p = <<"scripts">>
AtRoot(p) == p = Root
\* item["type"] == "dir" in the selection handlers and in the two walks
\* a walk that hands every entry to delete_single_file
delete_item_is_dir_never(item) == FALSE
selection_is_dir(item) == item.type = "dir"
download_item_is_file(item) == item.type = "file"
download_item_is_dir(item) == item.type = "dir"
delete_item_is_dir(item) == item.type = "dir"

\* ---- find_default_archive_repo: the user's account ----
\* repo_name = f"fown-archive{suffix}" for i in range(10), by i + 1
CandidateNames ==
    << "fown-archive", "fown-archive1", "fown-archive2", "fown-archive3",
       "fown-archive4", "fown-archive5", "fown-archive6", "fown-archive7",
       "fown-archive8", "fown-archive9" >>
UserName == "user"
\* the repositories an account may own; the last is outside the ten names
RepoNames == {"fown-archive", "fown-archive1", "fown-archive42"}
\* what .fown/config.yml of a repository holds:
\*   absent       no such file (the request fails)
\*   undecodable  bytes that are not UTF-8
\*   bad_yaml     text that is not YAML
\*   empty        an empty document
\*   non_mapping  a YAML list
\*   unmarked     a mapping without default_repository: true
\*   marked       a mapping with default_repository: true
ConfigKinds == {"absent", "undecodable", "bad_yaml", "empty", "non_mapping",
                "unmarked", "marked"}
Accounts ==
    { [user |-> TRUE, config |-> c] : c \in UNION { [R -> ConfigKinds] : R \in SUBSET RepoNames } }
      \cup { [user |-> FALSE, config |-> [r \in {"fown-archive"} |-> "marked"]] }
\* the account of the sessions explored in full
PlainAccount == [user |-> TRUE, config |-> [r \in {"fown-archive"} |-> "marked"]]

\* get_github_username(): the login, or None
get_github_username(acct) == IF acct.user THEN UserName ELSE "None"
\* repo_names = {repo["name"] for repo in get_user_repositories()}
repo_names(acct) == DOMAIN acct.config

\* make_github_api_request("GET", .../contents/.fown/config.yml) raises SystemExit
config_request_fails(kind) == kind = "absent"
\* base64.b64decode(...).decode("utf-8") raises UnicodeDecodeError
decode_raises(kind) == kind = "undecodable"
\* yaml.safe_load(content) raises yaml.YAMLError
safe_load_raises(kind) == kind = "bad_yaml"
\* the value of yaml.safe_load(content)
safe_load(kind) ==
    CASE kind = "empty" -> [type |-> "NoneType", default_repository |-> "None"]
      [] kind = "non_mapping" -> [type |-> "list", default_repository |-> "None"]
      [] kind = "unmarked" -> [type |-> "dict", default_repository |-> "False"]
      [] kind = "marked" -> [type |-> "dict", default_repository |-> "True"]
\* bool(config): None is falsy, the list and the mappings here are not empty
truthy(config) == config.type # "NoneType"
\* config.get raises AttributeError on a value that is not a mapping
get_raises(config) == config.type # "dict"
\* a handler that catches every exception, not SystemExit alone
except_catches_all(exc) == TRUE
\* except SystemExit: continue
except_catches(exc) == exc = "SystemExit"

\* the body of the try statement for one candidate: "return" (marked),
\* "next" (fall through to the next i), or the exception raised
try_candidate(kind) ==
    IF config_request_fails(kind) THEN "SystemExit"
    ELSE IF decode_raises(kind) THEN "UnicodeDecodeError"
    ELSE IF safe_load_raises(kind) THEN "YAMLError"
    ELSE IF ~truthy(safe_load(kind)) THEN "next"
    ELSE IF get_raises(safe_load(kind)) THEN "AttributeError"
    ELSE IF safe_load(kind).default_repository = "True" THEN "return"
    ELSE "next"
Exceptions == {"SystemExit", "UnicodeDecodeError", "YAMLError", "AttributeError"}

NoResult == [found |-> FALSE, repo_name |-> "", owner |-> ""]
\* return False, None, None
NotFoundResult == [found |-> FALSE, repo_name |-> "None", owner |-> "None"]
\* return True, repo_name, username
FoundResult(repo_name, username) == [found |-> TRUE, repo_name |-> repo_name, owner |-> username]

VARIABLES
    mode,           \* the command: "download" (load), "delete", "upload" (add)
    store,          \* remote repository: file path -> sha
    local,          \* working directory: local path -> content
    ltree,          \* the local files at the start: the argument of add, or the
                    \* working directory of load: [isdir, files, dirs, unreadable]
    pc,             \* where the command stands
    current_path,   \* current_path of the navigation loop
    items,          \* listing of the current iteration
    choice,         \* the normalised line typed at the selection prompt
    selected_item,  \* items[index - 1]
    stack,          \* frames of the recursive walk, innermost first
    pending,        \* local write waiting for the overwrite prompt
    uproots,        \* os.walk: directories not yet yielded
    upfiles,        \* os.walk: files of the current directory not yet uploaded
    calls,          \* log of the remote calls issued
    console,        \* the messages on the screen, oldest first
    ninputs,        \* lines typed at the selection prompt
    nmut,           \* out-of-band changes so far
    account,        \* the GitHub account: [user, config]
    ri,             \* find_default_archive_repo: i of the loop over range(10)
    rcalls,         \* repositories whose .fown/config.yml was requested, in order
    resolved,       \* (found, repo_name, owner) returned by find_default_archive_repo
    confirm,        \* _process_delete_selection: the answer to its confirmation
                    \* question, "" while the question has not been answered
    labels_file,    \* labels sync: the option --labels-file, with the labels
                    \* Config.load_labels yields for the file: [given, labels]
    archive,        \* labels sync: the flag --archive
    label_files,    \* the .json files of labels/ in the archive repository
    default_config, \* what Config.load_labels yields for data/default_config.yml
    repo_labels,    \* names of the labels of the target repository
    labels,         \* sync_labels: labels
    temp_file_path, \* sync_labels: temp_file_path, "None" or the temporary file
    applied         \* apply_labels_to_repo: labels of the loop already visited

vars == <<mode, store, local, ltree, pc, current_path, items, choice, selected_item,
          stack, pending, uproots, upfiles, calls, console, ninputs, nmut,
          account, ri, rcalls, resolved, confirm,
          labels_file, archive, label_files, default_config, repo_labels, labels,
          temp_file_path, applied>>

NavVars == <<current_path, items, choice, selected_item, ninputs>>
WalkVars == <<stack, pending>>
UpVars == <<uproots, upfiles>>
ResVars == <<account, ri, rcalls, resolved>>
SyncVars == <<labels_file, archive, label_files, default_config, repo_labels, labels,
              temp_file_path, applied>>
FixedVars == <<mode, ltree, nmut, ResVars, SyncVars>>
EnvVars == <<FixedVars, confirm>>

InitSha(f) == 10 * Len(f) + (IF BaseName(f) = "a" THEN 1 ELSE 2)
LocalContent(f) == 50 + InitSha(f)
LocalTrees ==
    { [isdir |-> TRUE, files |-> F, dirs |-> { LocalDir(j) : j \in 0..k }, unreadable |-> U] :
        F \in SUBSET AllLocalFiles, k \in 0..LocalDepth,
        U \in {{}} \cup { {f} : f \in AllLocalFiles } }
WellFormedLocal(t) ==
    /\ \A f \in t.files : ParentPath(f) \in t.dirs
    /\ t.unreadable \subseteq t.files
NoLocal == [isdir |-> FALSE, files |-> {}, dirs |-> {}, unreadable |-> {}]
OneLocalFile == [isdir |-> FALSE, files |-> {<<"a">>}, dirs |-> {}, unreadable |-> {}]
\* a working directory that already holds a file "a" and a file "d/a"
UsedCwd ==
    [isdir |-> TRUE, files |-> {<<"a">>, <<"d", "a">>}, dirs |-> {<<>>, <<"d">>},
     unreadable |-> {}]

\* the file commands: nothing of labels sync is in play
SyncIdle ==
    /\ labels_file = NoOption /\ archive = FALSE /\ label_files = <<>>
    /\ default_config = <<>> /\ repo_labels = {}
    /\ labels = <<>> /\ temp_file_path = "None" /\ applied = 0

Init ==
    /\ mode \in {"download", "delete", "upload"}
    /\ account \in Accounts
    /\ IF account # PlainAccount
       THEN /\ store = EmptyMap
            /\ ltree = (IF mode = "upload" THEN OneLocalFile ELSE NoLocal)
       ELSE IF mode = "upload"
       THEN /\ store = EmptyMap
            /\ ltree \in {t \in LocalTrees : WellFormedLocal(t)} \cup {OneLocalFile}
       ELSE /\ store \in { [f \in S |-> InitSha(f)] : S \in SUBSET AllFiles }
            /\ ltree \in (IF mode = "download" THEN {NoLocal, UsedCwd} ELSE {NoLocal})
    /\ local = (IF mode = "download" THEN [f \in ltree.files |-> LocalContent(f)]
                ELSE EmptyMap)
    /\ pc = "start"
    /\ current_path = NonePath
    /\ items = <<>>
    /\ choice = <<>>
    /\ selected_item = NoItem
    /\ stack = <<>>
    /\ pending = NoWrite
    /\ uproots = <<>>
    /\ upfiles = {}
    /\ calls = <<>>
    /\ console = <<>>
    /\ ninputs = 0
    /\ nmut = 0
    /\ ri = 0
    /\ rcalls = <<>>
    /\ resolved = NoResult
    /\ confirm = ""
    /\ SyncIdle

\* ---- results of the selection handlers (next_path; NonePath is None) ----
\* _process_download_selection, file branch: return None
download_file_next(cur) == NonePath
\* a loop that goes on browsing after the bulk download
download_dir_next_stay(cur) == cur
\* _process_download_selection / _handle_directory_download, after download_directory
download_dir_next(cur) == NonePath
\* a file branch that ends the session as the directory branch does
delete_file_next_none(cur) == NonePath
\* _process_delete_selection, file branch: return current_path
delete_file_next(cur) == cur
\* a declined file confirmation that leaves the directory
delete_file_declined_next_up(cur) == ParentPath(cur)
\* _process_delete_selection, file confirmation declined: return current_path
delete_file_declined_next(cur) == cur
\* _process_delete_selection, after delete_directory_recursive: return None
delete_dir_next(cur) == NonePath
\* a declined confirmation that ends the session
delete_dir_declined_next_none(cur) == NonePath
\* _process_delete_selection, second confirmation declined: return current_path
delete_dir_declined_next(cur) == cur
\* both handlers, answer "n": return selected_item["path"]
enter_dir_next(item) == item.path
\* navigate_and_download, empty listing: return
download_empty_next(cur) == NonePath
\* a pop on an empty listing that does not stop at the root
delete_empty_next_up(cur) == ParentPath(cur)
\* navigate_and_delete, empty listing: return at the root, else the parent
delete_empty_next(cur) == IF AtRoot(cur) THEN NonePath ELSE ParentPath(cur)
\* both loops, "b": break at the root, else the parent
back_next(cur) == IF AtRoot(cur) THEN NonePath ELSE ParentPath(cur)

\* the loop's tail: break on None, else current_path = next_path and iterate
GoNext(next_path) ==
    IF next_path = NonePath
    THEN pc' = "done" /\ UNCHANGED current_path
    ELSE pc' = "list" /\ current_path' = next_path

\* a menu that shows the listing last entry first
display_menu_reversed(listing) ==
    [i \in 1..Len(listing) |->
        Msg("row", <<i, listing[Len(listing) + 1 - i].name, listing[Len(listing) + 1 - i].type>>)]
\* _display_download_menu and the menu of navigate_and_delete: console.clear(),
\* then the numbered table of the listing, in the listing's order
display_menu(listing) ==
    [i \in 1..Len(listing) |-> Msg("row", <<i, listing[i].name, listing[i].type>>)]

\* ---- find_default_archive_repo ----
\* the least i in range(10), from k on, whose name the account owns; 10 if none
RECURSIVE NextOwned(_, _)
NextOwned(acct, k) ==
    IF k >= Len(CandidateNames) THEN Len(CandidateNames)
    ELSE IF CandidateNames[k + 1] \in repo_names(acct) THEN k
    ELSE NextOwned(acct, k + 1)

\* entry of every command: the call of find_default_archive_repo, up to the loop
FindUser ==
    /\ pc = "start"
    /\ IF get_github_username(account) = "None"
       THEN /\ console' = Append(console, Msg("no_user", <<>>))
            /\ resolved' = NotFoundResult
            /\ pc' = "resolved"
       ELSE /\ pc' = "resolve"
            /\ UNCHANGED <<console, resolved>>
    /\ UNCHANGED <<store, local, calls, ri, rcalls, account>>
    /\ UNCHANGED <<NavVars, WalkVars, UpVars, mode, ltree, nmut, confirm, SyncVars>>

\* the loop over range(10): the names not owned are passed over, the next owned
\* one has its .fown/config.yml requested and examined
FindCandidate ==
    /\ pc = "resolve"
    /\ LET i == NextOwned(account, ri) IN
       IF i >= Len(CandidateNames)
       THEN /\ resolved' = NotFoundResult
            /\ pc' = "resolved"
            /\ ri' = i
            /\ UNCHANGED <<rcalls, console>>
       ELSE LET repo_name == CandidateNames[i + 1]
                outcome == try_candidate(account.config[repo_name])
            IN /\ rcalls' = Append(rcalls, repo_name)
               /\ ri' = i + 1
               /\ IF outcome = "return"
                  THEN /\ resolved' = FoundResult(repo_name, get_github_username(account))
                       /\ pc' = "resolved"
                  ELSE IF outcome = "next" \/ (outcome \in Exceptions /\ except_catches(outcome))
                  THEN /\ pc' = "resolve"
                       /\ UNCHANGED resolved
                  ELSE /\ pc' = "raised"
                       /\ UNCHANGED resolved
               /\ console' = IF outcome \in Exceptions /\ ~except_catches(outcome)
                             THEN Append(console, Msg("traceback", outcome))
                             ELSE console
    /\ UNCHANGED <<store, local, calls, account>>
    /\ UNCHANGED <<NavVars, WalkVars, UpVars, mode, ltree, nmut, confirm, SyncVars>>

\* ---- commands ----
\* the status the process exits with: 0 when the command function returns (no
\* command calls sys.exit), 1 when an exception leaves it
exit_status(at) == IF at = "raised" THEN 1 ELSE 0
\* a command that goes on without a repository
found_always(result) == TRUE
\* the test "not found or not repo_name or not owner", negated
found(result) == result.found /\ result.repo_name # "None" /\ result.owner # "None"

load_file ==
    /\ pc = "resolved" /\ mode = "download"
    /\ IF found(resolved)
       THEN /\ pc' = "list" /\ current_path' = Root
            /\ UNCHANGED console
       ELSE /\ console' = Append(console, Msg("no_archive_repo", <<>>))
            /\ pc' = "done"
            /\ UNCHANGED current_path
    /\ UNCHANGED <<store, local, items, choice, selected_item, ninputs, calls>>
    /\ UNCHANGED <<WalkVars, UpVars, EnvVars>>

delete_file ==
    /\ pc = "resolved" /\ mode = "delete"
    /\ IF found(resolved)
       THEN /\ pc' = "list" /\ current_path' = Root
            /\ UNCHANGED console
       ELSE /\ console' = Append(console, Msg("no_archive_repo", <<>>))
            /\ pc' = "done"
            /\ UNCHANGED current_path
    /\ UNCHANGED <<store, local, items, choice, selected_item, ninputs, calls>>
    /\ UNCHANGED <<WalkVars, UpVars, EnvVars>>

\* a loop that keeps the listing it already holds
loop_items_kept(items_before, listing) ==
    IF items_before = <<>> THEN listing ELSE items_before
\* items = list_archive_files(...) at the top of each iteration: the new
\* listing replaces the one of the iteration before
loop_items(items_before, listing) == listing

\* ---- navigate_and_download ----
DownloadList ==
    /\ pc = "list" /\ mode = "download"
    /\ LET listing == loop_items(items, list_archive_files(store, current_path)) IN
       /\ items' = listing
       /\ calls' = Append(calls, ListCall(current_path, listing # <<>>))
       /\ IF listing = <<>>
          THEN /\ console' = Append(console, Msg("no_items", current_path))
               /\ GoNext(download_empty_next(current_path))
          ELSE /\ pc' = "prompt"
               /\ console' = display_menu(listing)
               /\ UNCHANGED current_path
    /\ UNCHANGED <<store, local, choice, selected_item, ninputs>>
    /\ UNCHANGED <<WalkVars, UpVars, EnvVars>>

\* a download that never finds the destination in the way
local_path_exists_never(l, local_path) == FALSE
\* local_path.exists()
local_path_exists(l, local_path) == local_path \in DOMAIN l

\* download_single_file(file_item, local_dir); the walk resumes or the command ends
DownloadSingleFile(file_item, local_dir) ==
    LET present == file_item.path \in DOMAIN store
        local_path == Append(local_dir, file_item.name)
        after == IF stack' = <<>> THEN "done" ELSE "walk"
    IN /\ calls' = Append(calls, ReadCall(file_item.path, present))
       /\ IF ~present
          THEN /\ console' = Append(console, Msg("download_failed", file_item.path))
               /\ pc' = after
               /\ UNCHANGED <<local, pending>>
          ELSE IF local_path_exists(local, local_path)
          THEN /\ pending' = [path |-> local_path, content |-> store[file_item.path]]
               /\ pc' = "overwrite"
               /\ UNCHANGED <<local, console>>
          ELSE /\ local' = RemotePut(local, local_path, store[file_item.path])
               /\ console' = Append(console, Msg("download_ok", file_item.path))
               /\ pc' = after
               /\ UNCHANGED pending

\* download_directory(dir_path), entry: list and start the loop over the items
EnterDownloadDirectory(dir_path, rest) ==
    LET listing == list_archive_files(store, dir_path) IN
    /\ calls' = Append(calls, ListCall(dir_path, listing # <<>>))
    /\ console' = Append(console, Msg("download_start", dir_path))
    /\ stack' = <<[dir |-> dir_path, items |-> listing, i |-> 1,
                   base |-> <<BaseName(dir_path)>>]>> \o rest
    /\ pc' = "walk"

\* download_item(item), reached with an item that is not a directory
DownloadItem(item) ==
    IF download_item_is_file(item)
    THEN DownloadSingleFile(item, <<>>)
    ELSE /\ pc' = "done"
         /\ UNCHANGED <<calls, console, local, pending>>

DownloadChoose(raw) ==
    /\ pc = "prompt" /\ mode = "download" /\ ninputs < MaxInputs
    /\ ninputs' = ninputs + 1
    /\ choice' = strip_lower(raw)
    /\ LET c == strip_lower(raw)
           index == validate_user_choice(c, Len(items))
       IN IF IsQuit(c)
          THEN /\ pc' = "done"
               /\ UNCHANGED <<current_path, selected_item, calls, console, local, WalkVars>>
          ELSE IF IsBack(c)
          THEN /\ GoNext(back_next(current_path))
               /\ UNCHANGED <<selected_item, calls, console, local, WalkVars>>
          ELSE IF index = NoIndex
          THEN /\ console' = Append(console, Msg(validate_user_choice_msg(c, Len(items)), c))
               /\ pc' = "list"
               /\ UNCHANGED <<current_path, selected_item, calls, local, WalkVars>>
          ELSE /\ selected_item' = PyIndex(items, index - 1)
               /\ IF selection_is_dir(PyIndex(items, index - 1))
                  THEN /\ pc' = "ask_dir"
                       /\ UNCHANGED <<current_path, calls, console, local, WalkVars>>
                  ELSE /\ stack' = stack
                       /\ DownloadItem(PyIndex(items, index - 1))
                       /\ UNCHANGED current_path
    /\ UNCHANGED <<store, items>>
    /\ UNCHANGED <<UpVars, EnvVars>>

DownloadAskDir(action) ==
    /\ pc = "ask_dir" /\ mode = "download"
    /\ IF action = "y"
       THEN /\ EnterDownloadDirectory(selected_item.path, <<>>)
            /\ UNCHANGED current_path
       ELSE /\ GoNext(enter_dir_next(selected_item))
            /\ UNCHANGED <<calls, console, stack>>
    /\ UNCHANGED <<store, local, items, choice, selected_item, ninputs, pending>>
    /\ UNCHANGED <<UpVars, EnvVars>>

\* a loop that never leaves its item
next_item_same(i) == i
\* for item in items: the loop takes the next item of the listing
next_item(i) == i + 1

DownloadWalkStep ==
    /\ pc = "walk" /\ mode = "download"
    /\ LET fr == Head(stack)
           rest == <<[fr EXCEPT !.i = next_item(@)]>> \o Tail(stack)
       IN IF fr.i > Len(fr.items)
          THEN /\ stack' = Tail(stack)
               /\ IF Tail(stack) = <<>>
                  THEN GoNext(download_dir_next(current_path))
                  ELSE pc' = "walk" /\ UNCHANGED current_path
               /\ UNCHANGED <<calls, console, local, pending>>
          ELSE IF download_item_is_file(fr.items[fr.i])
          THEN /\ stack' = rest
               /\ DownloadSingleFile(fr.items[fr.i], fr.base)
               /\ UNCHANGED current_path
          ELSE IF download_item_is_dir(fr.items[fr.i])
          THEN /\ EnterDownloadDirectory(fr.items[fr.i].path, rest)
               /\ UNCHANGED <<local, pending, current_path>>
          ELSE /\ stack' = rest
               /\ UNCHANGED <<pc, calls, console, local, pending, current_path>>
    /\ UNCHANGED <<store, items, choice, selected_item, ninputs>>
    /\ UNCHANGED <<UpVars, EnvVars>>

Overwrite(answer) ==
    /\ pc = "overwrite" /\ mode = "download"
    /\ IF answer = "y"
       THEN /\ local' = RemotePut(local, pending.path, pending.content)
            /\ console' = Append(console, Msg("download_ok", pending.path))
       ELSE /\ console' = Append(console, Msg("download_cancelled", pending.path))
            /\ UNCHANGED local
    /\ pending' = NoWrite
    /\ pc' = IF stack = <<>> THEN "done" ELSE "walk"
    /\ UNCHANGED <<store, calls, stack, NavVars, UpVars, EnvVars>>

\* ---- navigate_and_delete ----
\* a test that takes no listing for empty
not_items_never(listing) == FALSE
\* if not items
not_items(listing) == listing = <<>>

DeleteList ==
    /\ pc = "list" /\ mode = "delete"
    /\ LET listing == loop_items(items, list_archive_files(store, current_path)) IN
       /\ items' = listing
       /\ calls' = Append(calls, ListCall(current_path, listing # <<>>))
       /\ IF not_items(listing)
          THEN /\ console' = Append(console, Msg("no_items_go_up", current_path))
               /\ GoNext(delete_empty_next(current_path))
          ELSE /\ pc' = "prompt"
               /\ console' = display_menu(listing)
               /\ UNCHANGED current_path
    /\ UNCHANGED <<store, local, choice, selected_item, ninputs>>
    /\ UNCHANGED <<WalkVars, UpVars, EnvVars>>

\* a delete_single_file without the except clause
delete_error_uncaught == FALSE
\* delete_single_file: its except clause catches the failure of the request
delete_error_caught == TRUE

\* a payload that carries no identity of the file
payload_sha_none(file_item) == 0
\* payload: "sha": file_item["sha"]
payload_sha(file_item) == file_item.sha

\* delete_single_file(file_item); resume is where control goes when it returns
DeleteSingleFile(file_item, resume) ==
    LET res == RemoteDeleteResult(store, file_item.path, payload_sha(file_item)) IN
    /\ calls' = Append(calls, DeleteCall(file_item.path, payload_sha(file_item), res = "ok"))
    /\ store' = RemoteDelete(store, file_item.path, payload_sha(file_item))
    /\ IF res = "ok"
       THEN /\ console' = Append(console, Msg("delete_ok", file_item.path))
            /\ resume
       ELSE IF delete_error_caught
       THEN /\ console' = Append(console, Msg("delete_error", file_item.path))
            /\ resume
       ELSE /\ console' = Append(console, Msg("crash", file_item.path))
            /\ pc' = "done" /\ stack' = <<>> /\ UNCHANGED current_path

\* delete_directory_recursive(dir_path), entry: list and start the loop
EnterDeleteDirectory(dir_path, rest) ==
    LET listing == list_archive_files(store, dir_path) IN
    /\ calls' = Append(calls, ListCall(dir_path, listing # <<>>))
    /\ stack' = <<[dir |-> dir_path, items |-> listing, i |-> 1, base |-> <<>>]>> \o rest
    /\ pc' = "walk"

DeleteChoose(raw) ==
    /\ pc = "prompt" /\ mode = "delete" /\ ninputs < MaxInputs
    /\ ninputs' = ninputs + 1
    /\ choice' = strip_lower(raw)
    /\ LET c == strip_lower(raw)
           index == validate_delete_choice(c, Len(items))
       IN IF IsQuit(c)
          THEN /\ pc' = "done"
               /\ UNCHANGED <<current_path, selected_item, console>>
          ELSE IF IsBack(c)
          THEN /\ GoNext(back_next(current_path))
               /\ UNCHANGED <<selected_item, console>>
          ELSE IF index = NoIndex
          THEN /\ console' = Append(console, Msg(validate_user_choice_msg(c, Len(items)), c))
               /\ pc' = "list"
               /\ UNCHANGED <<current_path, selected_item>>
          ELSE /\ selected_item' = PyIndex(items, index - 1)
               /\ pc' = IF selection_is_dir(PyIndex(items, index - 1))
                        THEN "ask_dir" ELSE "confirm_file"
               /\ UNCHANGED <<current_path, console>>
    /\ confirm' = ""
    /\ UNCHANGED <<store, local, items, calls>>
    /\ UNCHANGED <<WalkVars, UpVars, FixedVars>>

DeleteAskDir(action) ==
    /\ pc = "ask_dir" /\ mode = "delete"
    /\ IF action = "y"
       THEN pc' = "confirm_dir" /\ UNCHANGED current_path
       ELSE GoNext(enter_dir_next(selected_item))
    /\ UNCHANGED <<store, local, items, choice, selected_item, ninputs, calls, console>>
    /\ UNCHANGED <<WalkVars, UpVars, EnvVars>>

\* a confirmation that takes any answer for a "y"
confirm_is_yes_always(answer) == TRUE
\* if confirm == "y"
confirm_is_yes(answer) == answer = "y"

DeleteConfirmDir(answer) ==
    /\ pc = "confirm_dir" /\ mode = "delete"
    /\ confirm' = answer
    /\ IF confirm_is_yes(answer)
       THEN /\ EnterDeleteDirectory(selected_item.path, <<>>)
            /\ UNCHANGED current_path
       ELSE /\ GoNext(delete_dir_declined_next(current_path))
            /\ UNCHANGED <<calls, stack>>
    /\ UNCHANGED <<store, local, items, choice, selected_item, ninputs, console, pending>>
    /\ UNCHANGED <<UpVars, FixedVars>>

DeleteConfirmFile(answer) ==
    /\ pc = "confirm_file" /\ mode = "delete"
    /\ confirm' = answer
    /\ IF confirm_is_yes(answer)
       THEN DeleteSingleFile(selected_item,
                /\ GoNext(delete_file_next(current_path))
                /\ UNCHANGED stack)
       ELSE /\ GoNext(delete_file_declined_next(current_path))
            /\ UNCHANGED <<store, calls, console, stack>>
    /\ UNCHANGED <<local, items, choice, selected_item, ninputs, pending>>
    /\ UNCHANGED <<UpVars, FixedVars>>

\* a loop that leaves after its first item
delete_loop_over_first(fr) == fr.i > 1 \/ fr.i > Len(fr.items)
\* for item in items: the loop is over when every item has been visited
delete_loop_over(fr) == fr.i > Len(fr.items)

DeleteWalkStep ==
    /\ pc = "walk" /\ mode = "delete"
    /\ LET fr == Head(stack)
           rest == <<[fr EXCEPT !.i = next_item(@)]>> \o Tail(stack)
       IN IF delete_loop_over(fr)
          THEN /\ stack' = Tail(stack)
               /\ console' = Append(console, Msg("dir_deleted", fr.dir))
               /\ IF Tail(stack) = <<>>
                  THEN GoNext(delete_dir_next(current_path))
                  ELSE pc' = "walk" /\ UNCHANGED current_path
               /\ UNCHANGED <<calls, store>>
          ELSE IF delete_item_is_dir(fr.items[fr.i])
          THEN /\ EnterDeleteDirectory(fr.items[fr.i].path, rest)
               /\ UNCHANGED <<store, console, current_path>>
          ELSE DeleteSingleFile(fr.items[fr.i],
                   /\ stack' = rest
                   /\ pc' = "walk"
                   /\ UNCHANGED current_path)
    /\ UNCHANGED <<local, items, choice, selected_item, ninputs, pending>>
    /\ UNCHANGED <<UpVars, EnvVars>>

\* ---- add_file, upload_file, upload_directory ----
\* os.walk(dir_path), top-down: a directory, then its subdirectories
RECURSIVE OsWalk(_, _)
OsWalk(t, d) ==
    IF d \notin t.dirs THEN <<>>
    ELSE <<d>> \o OsWalk(t, Append(d, DirName))
FilesOf(t, d) == { f \in t.files : ParentPath(f) = d }
\* a remote path without the name of the uploaded directory
repo_path_flat(relative_path) == <<"files">> \o relative_path
\* repo_path = f"files/{dir_path.name}/{relative_path}"
repo_path(relative_path) == <<"files", UploadName>> \o relative_path
\* repo_file_path = f"{base_repo_path}/{file_path.name}"
repo_file_path(file_path) == <<"files", BaseName(file_path)>>

add_file ==
    /\ pc = "resolved" /\ mode = "upload"
    /\ IF ~found(resolved)
       THEN /\ console' = Append(console, Msg("no_archive_repo", <<>>))
            /\ pc' = "done"
            /\ UNCHANGED <<uproots, upfiles>>
       ELSE IF ltree.isdir
       THEN /\ console' = Append(console, Msg("upload_start", <<UploadName>>))
            /\ uproots' = OsWalk(ltree, <<>>)
            /\ upfiles' = {}
            /\ pc' = "upload"
       ELSE /\ pc' = "upload_file"
            /\ UNCHANGED <<console, uproots, upfiles>>
    /\ UNCHANGED <<store, local, calls, NavVars, WalkVars, EnvVars>>

upload_file(ok) ==
    /\ pc = "upload_file" /\ mode = "upload"
    /\ LET f == CHOOSE x \in ltree.files : TRUE IN
       /\ calls' = Append(calls, WriteCall(repo_file_path(f), ok))
       /\ store' = IF ok THEN RemotePut(store, repo_file_path(f), LocalContent(f)) ELSE store
       /\ console' = Append(console, Msg(IF ok THEN "upload_ok" ELSE "upload_error", f))
    /\ pc' = "done"
    /\ UNCHANGED <<local, NavVars, WalkVars, UpVars, EnvVars>>

\* the outer loop of upload_directory: os.walk yields the next directory
UploadNextRoot ==
    /\ pc = "upload" /\ mode = "upload" /\ upfiles = {}
    /\ IF uproots = <<>>
       THEN pc' = "done" /\ UNCHANGED <<uproots, upfiles>>
       ELSE /\ upfiles' = FilesOf(ltree, Head(uproots))
            /\ uproots' = Tail(uproots)
            /\ pc' = "upload"
    /\ UNCHANGED <<store, local, calls, console, NavVars, WalkVars, EnvVars>>

\* the inner loop of upload_directory: one file, in the order the OS lists them
\* an upload_directory without the except clause
upload_error_uncaught == FALSE
\* upload_directory: its except clause, inside the loop, catches the failure
upload_error_caught == TRUE

\* open(local_path, "rb") raises for a file that cannot be read
open_raises(t, f) == f \in t.unreadable

UploadFile(f, ok) ==
    /\ pc = "upload" /\ mode = "upload" /\ f \in upfiles
    /\ open_raises(ltree, f) => ok
    /\ LET written == ~open_raises(ltree, f) /\ ok IN
       /\ calls' = IF open_raises(ltree, f) THEN calls
                   ELSE Append(calls, WriteCall(repo_path(f), ok))
       /\ store' = IF written THEN RemotePut(store, repo_path(f), LocalContent(f)) ELSE store
       /\ IF written
          THEN /\ console' = Append(console, Msg("upload_ok", f))
               /\ upfiles' = upfiles \ {f}
               /\ UNCHANGED <<pc, uproots>>
          ELSE IF upload_error_caught
          THEN /\ console' = Append(console, Msg("upload_error", f))
               /\ upfiles' = upfiles \ {f}
               /\ UNCHANGED <<pc, uproots>>
          ELSE /\ console' = Append(console, Msg("traceback", f))
               /\ pc' = "raised" /\ upfiles' = {} /\ uproots' = <<>>
    /\ UNCHANGED <<local, NavVars, WalkVars, EnvVars>>

\* ---- the environment: another client of the repository ----
\* the tool holds a listing entry of f, still current, that it is about to delete:
\* the file selected at the confirmation prompt, or an entry the walk has listed
\* and not reached yet
Listed(f) ==
    \/ /\ pc = "confirm_file"
       /\ selected_item.path = f /\ selected_item.sha = store[f]
    \/ \E k \in 1..Len(stack) : \E j \in stack[k].i..Len(stack[k].items) :
          stack[k].items[j].path = f /\ stack[k].items[j].sha = store[f]

\* a commit that changes the content, hence the sha, of a file, made between
\* the tool's listing of the file and its use of the listed entry
Mutate(f) ==
    /\ mode = "delete" /\ nmut < MaxMutations
    /\ f \in DOMAIN store /\ Listed(f)
    /\ nmut' = nmut + 1
    /\ store' = [store EXCEPT ![f] = @ + 100]
    /\ UNCHANGED <<mode, ltree, local, pc, calls, console, NavVars, WalkVars, UpVars, ResVars, confirm>>
    /\ UNCHANGED SyncVars

\* a commit that removes a file of the directory the user has just selected,
\* made while the tool waits at the directory prompt
ExternalRemove(f) ==
    /\ mode \in {"download", "delete"} /\ pc = "ask_dir"
    /\ nmut < MaxMutations /\ f \in DOMAIN store
    /\ IsPrefix(selected_item.path, f)
    /\ nmut' = nmut + 1
    /\ store' = Restrict(store, DOMAIN store \ {f})
    /\ UNCHANGED <<mode, ltree, local, pc, calls, console, NavVars, WalkVars, UpVars, ResVars, confirm>>
    /\ UNCHANGED SyncVars

ToolNext ==
    \/ FindUser
    \/ FindCandidate
    \/ load_file
    \/ delete_file
    \/ add_file
    \/ DownloadList
    \/ \E raw \in Inputs : DownloadChoose(raw)
    \/ \E a \in {"y", "n"} : DownloadAskDir(a)
    \/ DownloadWalkStep
    \/ \E a \in {"y", "n"} : Overwrite(a)
    \/ DeleteList
    \/ \E raw \in Inputs : DeleteChoose(raw)
    \/ \E a \in {"y", "n"} : DeleteAskDir(a)
    \/ \E a \in {"y", "n"} : DeleteConfirmDir(a)
    \/ \E a \in {"y", "n"} : DeleteConfirmFile(a)
    \/ DeleteWalkStep
    \/ \E ok \in BOOLEAN : upload_file(ok)
    \/ UploadNextRoot
    \/ \E f \in AllLocalFiles, ok \in BOOLEAN : UploadFile(f, ok)

\* the repository is touched by the tool alone
Next == ToolNext
Spec == Init /\ [][Next]_vars

\* another client changes file contents while the tool runs
NextRace == ToolNext \/ \E f \in AllFiles : Mutate(f)
SpecRace == Init /\ [][NextRace]_vars

\* another client removes files while the tool runs
NextGone == ToolNext \/ \E f \in AllFiles : ExternalRemove(f)
SpecGone == Init /\ [][NextGone]_vars

\* ---- labels sync (src/src/fown/cli/label.py) ----
\* a label as Label.from_dict builds it; its name or its color may be empty
Label(name, color) == [name |-> name, color |-> color]
LabelPool == { Label("bug", "red"), Label("feat", "blue"), Label("", "red"), Label("feat", "") }
LabelLists == UNION { [1..n -> LabelPool] : n \in 0..MaxLabels }
\* the packaged data/default_config.yml, when it loads
DefaultLabels == << Label("bug", "red"), Label("feat", "blue") >>
\* what a .json file of labels/ holds: the request for it fails, it is not
\* JSON, or it is a list of at most one label
LabelFileContents ==
    { [kind |-> k, labels |-> <<>>] : k \in {"request_fails", "bad_json"} }
      \cup { [kind |-> "labels", labels |-> l] : l \in { x \in LabelLists : Len(x) <= 1 } }
\* the repositories of GET user/repos, in the order of the response
SyncRepoOrder == <<"notes", "fown-archive42", "fown-archive">>
SyncAccounts ==
    { [user |-> u, config |-> c] :
        u \in BOOLEAN,
        c \in UNION { [R -> ConfigKinds] :
                        R \in SUBSET { SyncRepoOrder[k] : k \in 1..Len(SyncRepoOrder) } } }
\* the account of the runs explored with every archive content
SyncPlainAccount == [user |-> TRUE, config |-> [r \in {"fown-archive42"} |-> "marked"]]

\* if "fown-archive" in repo["name"]
in_repo_name(r) == r \in {"fown-archive", "fown-archive42"}
\* label.py, get_github_username(): the login, or None
label_get_github_username(acct) == IF acct.user THEN UserName ELSE "None"
\* label.py, find_default_archive_repo, the loop over repos from the k-th on:
\* outcome "found", "not_found", or "raised" with the exception in owner
RECURSIVE label_scan_repos(_, _)
label_scan_repos(acct, k) ==
    IF k > Len(SyncRepoOrder)
    THEN [outcome |-> "not_found", repo_name |-> "None", owner |-> "None"]
    ELSE LET r == SyncRepoOrder[k] IN
         IF r \notin DOMAIN acct.config \/ ~in_repo_name(r)
         THEN label_scan_repos(acct, k + 1)
         ELSE LET o == try_candidate(acct.config[r]) IN
              IF o = "return"
              THEN [outcome |-> "found", repo_name |-> r, owner |-> label_get_github_username(acct)]
              ELSE IF o = "next" \/ o = "SystemExit"
              THEN label_scan_repos(acct, k + 1)
              ELSE [outcome |-> "raised", repo_name |-> "None", owner |-> o]
\* label.py, find_default_archive_repo()
label_find_default_archive_repo(acct) ==
    IF label_get_github_username(acct) = "None"
    THEN [outcome |-> "not_found", repo_name |-> "None", owner |-> "None"]
    ELSE label_scan_repos(acct, 1)

\* get_label_file_content: the name of a temporary file, None, or "raised"
\* (json.loads raises, and only SystemExit is caught)
get_label_file_content(content) ==
    IF content.kind = "request_fails" THEN "None"
    ELSE IF content.kind = "bad_json" THEN "raised"
    ELSE "tmp"
\* load_labels_from_json(temp_file_path): the labels of the temporary file
load_labels_from_json(content) == content.labels
\* load_labels_from_archive(repo_name, owner, show_menu), with the number
\* typed at the menu of show_label_files_menu when it is shown
load_labels_from_archive(files, show_menu, pick) ==
    LET chosen == IF show_menu /\ files # <<>> THEN pick ELSE 1
        temp == IF files = <<>> THEN "None" ELSE get_label_file_content(files[chosen])
    IN [labels |-> IF temp = "tmp" THEN load_labels_from_json(files[chosen]) ELSE <<>>,
        temp_file_path |-> temp]

\* a test that takes every list of labels for non-empty
not_labels_never(ls) == FALSE
\* if not labels (before delete_all_labels)
not_labels(ls) == ls = <<>>

DeleteAllCall == [op |-> "delete_all_labels", path |-> <<>>, sha |-> 0, ok |-> TRUE]
CreateCall(name, ok) == [op |-> "create_label", path |-> <<name>>, sha |-> 0, ok |-> ok]
\* success_count of apply_labels_to_repo
success_count(cs) ==
    Cardinality({ i \in 1..Len(cs) : cs[i].op = "create_label" /\ cs[i].ok })

FileVars == <<store, local, ltree, NavVars, WalkVars, UpVars, nmut, ri, rcalls, resolved, confirm>>
SyncInputs == <<mode, account, labels_file, archive, label_files, default_config>>

InitSync ==
    /\ mode = "sync"
    /\ repo_labels \in { {}, {"bug", "old"} }
    /\ labels_file \in {NoOption} \cup { [given |-> TRUE, labels |-> l] : l \in LabelLists }
    /\ IF labels_file.given
       THEN /\ account = SyncPlainAccount /\ archive = FALSE
            /\ label_files = <<>> /\ default_config = DefaultLabels
       ELSE /\ account \in SyncAccounts
            /\ archive \in BOOLEAN
            /\ default_config \in { <<>>, DefaultLabels }
            /\ IF account = SyncPlainAccount
               THEN label_files \in UNION { [1..n -> LabelFileContents] : n \in 0..MaxLabelFiles }
               ELSE /\ label_files = << [kind |-> "labels", labels |-> <<Label("bug", "red")>>] >>
                    /\ archive = FALSE
    /\ labels = <<>> /\ temp_file_path = "None" /\ applied = 0
    /\ store = EmptyMap /\ local = EmptyMap /\ ltree = NoLocal
    /\ pc = "start"
    /\ current_path = NonePath /\ items = <<>> /\ choice = <<>> /\ selected_item = NoItem
    /\ stack = <<>> /\ pending = NoWrite /\ uproots = <<>> /\ upfiles = {}
    /\ calls = <<>> /\ console = <<>>
    /\ ninputs = 0 /\ nmut = 0 /\ ri = 0 /\ rcalls = <<>> /\ resolved = NoResult
    /\ confirm = ""

\* @click.confirmation_option: the command body runs only after "y"
SyncConfirm(answer) ==
    /\ mode = "sync" /\ pc = "start"
    /\ IF answer = "y"
       THEN pc' = "sync" /\ UNCHANGED console
       ELSE pc' = "done" /\ console' = Append(console, Msg("aborted", <<>>))
    /\ UNCHANGED <<calls, repo_labels, labels, temp_file_path, applied, FileVars, SyncInputs>>

\* sync_labels, up to the test of labels: the labels of --labels-file, or
\* those of the archive repository, or else those of the default config
SyncLoad(pick) ==
    /\ mode = "sync" /\ pc = "sync"
    /\ IF archive /\ label_files # <<>> THEN pick \in 1..Len(label_files) ELSE pick = 1
    /\ IF labels_file.given
       THEN /\ labels' = labels_file.labels
            /\ pc' = "loaded"
            /\ UNCHANGED <<console, temp_file_path>>
       ELSE LET res == label_find_default_archive_repo(account)
                loaded == IF res.outcome = "found" /\ res.repo_name # "None" /\ res.owner # "None"
                          THEN load_labels_from_archive(label_files, archive, pick)
                          ELSE [labels |-> <<>>, temp_file_path |-> "None"]
            IN IF res.outcome = "raised"
               THEN /\ pc' = "raised"
                    /\ console' = Append(console, Msg("traceback", res.owner))
                    /\ UNCHANGED <<labels, temp_file_path>>
               ELSE IF loaded.temp_file_path = "raised"
               THEN /\ pc' = "raised"
                    /\ console' = Append(console, Msg("traceback", "JSONDecodeError"))
                    /\ UNCHANGED <<labels, temp_file_path>>
               ELSE /\ temp_file_path' = loaded.temp_file_path
                    /\ pc' = "loaded"
                    /\ IF loaded.labels = <<>>
                       THEN /\ console' = Append(console, Msg("using_default", <<>>))
                            /\ labels' = default_config
                       ELSE /\ labels' = loaded.labels
                            /\ UNCHANGED console
    /\ UNCHANGED <<calls, repo_labels, applied, FileVars, SyncInputs>>

\* sync_labels: return when there are no labels, else
\* LabelService.delete_all_labels; left is the labels it failed to delete
SyncDeleteAll(left) ==
    /\ mode = "sync" /\ pc = "loaded"
    /\ left \subseteq repo_labels
    /\ IF not_labels(labels)
       THEN /\ left = repo_labels
            /\ console' = Append(console, Msg("no_labels_to_apply", <<>>))
            /\ pc' = "done"
            /\ UNCHANGED <<calls, repo_labels>>
       ELSE /\ calls' = Append(calls, DeleteAllCall)
            /\ repo_labels' = left
            /\ console' = Append(console, Msg("deleting_all", <<>>))
            /\ pc' = "apply"
    /\ UNCHANGED <<labels, temp_file_path, applied, FileVars, SyncInputs>>

\* apply_labels_to_repo: one iteration of its loop
SyncApply(ok) ==
    /\ mode = "sync" /\ pc = "apply" /\ applied < Len(labels)
    /\ LET label == labels[applied + 1] IN
       IF label.name # "" /\ label.color # ""
       THEN /\ calls' = Append(calls, CreateCall(label.name, ok))
            /\ repo_labels' = IF ok THEN repo_labels \cup {label.name} ELSE repo_labels
       ELSE /\ ok
            /\ UNCHANGED <<calls, repo_labels>>
    /\ applied' = applied + 1
    /\ UNCHANGED <<pc, console, labels, temp_file_path, FileVars, SyncInputs>>

\* sync_labels, after apply_labels_to_repo: the count, and os.unlink
SyncFinish ==
    /\ mode = "sync" /\ pc = "apply" /\ applied = Len(labels)
    /\ console' = Append(console, Msg("synced", <<success_count(calls), Len(labels)>>))
    /\ temp_file_path' = "None"
    /\ pc' = "done"
    /\ UNCHANGED <<calls, repo_labels, labels, applied, FileVars, SyncInputs>>

NextSync ==
    \/ \E a \in {"y", "n"} : SyncConfirm(a)
    \/ \E pick \in 1..MaxLabelFiles : SyncLoad(pick)
    \/ \E left \in SUBSET {"bug", "old"} : SyncDeleteAll(left)
    \/ \E ok \in BOOLEAN : SyncApply(ok)
    \/ SyncFinish
SpecSync == InitSync /\ [][NextSync]_vars

\* ---- vocabulary of the properties ----
Q == <<"q">>
B == <<"b">>
\* the path with its last segment removed
DropLast(p) == [i \in 1..(Len(p) - 1) |-> p[i]]
\* the line is the decimal numeral of an integer in 1..n
IsIndexNumeral(c, n) == \E k \in 1..n : k <= 9 /\ c = <<Digits[k + 1]>>
IndexOf(c) == CHOOSE k \in 1..9 : c = <<Digits[k + 1]>>
InvalidLine(c, n) == c # Q /\ c # B /\ ~IsIndexNumeral(c, n)
\* a line is typed at the selection prompt in this step
Typed == pc = "prompt" /\ ninputs' = ninputs + 1
LastMsg == IF console = <<>> THEN "" ELSE console[Len(console)].msg
Printed(m) == \E i \in 1..Len(console) : console[i].msg = m
Warnings == {"warn_not_digit", "warn_value_error", "warn_out_of_range"}
NavMode == mode \in {"download", "delete"}

\* C1: in both modes, typing "q" at the prompt of the root directory ends the
\* session at once and issues no remote call; when it is the first line typed,
\* the session's only remote call is the initial list of the root.
C1_QuitAtRoot ==
    /\ [][(Typed /\ NavMode /\ current_path = Root /\ choice' = Q)
            => (pc' = "done" /\ calls' = calls /\ store' = store /\ local' = local)]_vars
    /\ []((NavMode /\ ninputs = 1 /\ choice = Q)
            => (pc = "done" /\ calls = <<ListCall(Root, TRUE)>>))

C1_Witness ==
    /\ mode = "download" /\ pc = "done" /\ ninputs = 1 /\ choice = Q
    /\ current_path = Root /\ calls = <<ListCall(Root, TRUE)>>

\* C2: in both modes, typing "b" at the prompt of the root directory ends the
\* session with no further remote call, and the loop never browses a path
\* that is not the root or below it.
C2_BackAtRoot ==
    /\ [][(Typed /\ NavMode /\ current_path = Root /\ choice' = B)
            => (pc' = "done" /\ calls' = calls /\ current_path' = Root)]_vars
    /\ []((NavMode /\ pc \in {"list", "prompt"}) => IsPrefix(Root, current_path))
    /\ []((NavMode /\ ninputs = 1 /\ choice = B)
            => (pc = "done" /\ calls = <<ListCall(Root, TRUE)>>))

C2_Witness ==
    /\ mode = "delete" /\ pc = "done" /\ ninputs = 1 /\ choice = B
    /\ current_path = Root /\ calls = <<ListCall(Root, TRUE)>>

\* C3: in both modes, typing "b" at the prompt of a directory other than the
\* root makes the parent (the path without its last segment) the current
\* path, and the next prompt is reached after exactly one remote call, the
\* list of that parent.
C3_BackBelowRoot ==
    /\ [][(Typed /\ NavMode /\ current_path # Root /\ choice' = B)
            => (pc' = "list" /\ current_path' = DropLast(current_path)
                /\ calls' = calls)]_vars
    /\ [][(NavMode /\ pc = "list" /\ choice = B /\ ninputs > 0)
            => (pc' = "prompt" /\ current_path' = current_path
                /\ calls' = Append(calls, ListCall(current_path, TRUE)))]_vars

C3_Witness ==
    /\ mode = "delete" /\ pc = "prompt" /\ choice = B /\ ninputs = 3
    /\ current_path = <<"files", "d">>
    /\ calls[Len(calls)] = ListCall(<<"files", "d">>, TRUE)
    /\ calls[Len(calls) - 1] = ListCall(<<"files", "d", "d">>, TRUE)

\* C4: in both modes, a line that is not "q", not "b" and not the numeral of
\* an entry of the listing changes neither the current path nor the
\* repository nor the working directory, does not end the session, and is
\* followed by one remote call only, the list of the same path, before the
\* next prompt.
C4_InvalidLine ==
    /\ [][(Typed /\ NavMode /\ InvalidLine(choice', Len(items)))
            => (pc' = "list" /\ current_path' = current_path /\ calls' = calls
                /\ store' = store /\ local' = local
                /\ console' # console /\ console'[Len(console')].msg \in Warnings)]_vars
    /\ [][(NavMode /\ pc = "list" /\ LastMsg \in Warnings)
            => (pc' = "prompt" /\ current_path' = current_path
                /\ store' = store /\ local' = local
                /\ calls' = Append(calls, ListCall(current_path, TRUE)))]_vars

C4_Witness ==
    /\ mode = "download" /\ pc = "prompt" /\ ninputs = 3 /\ choice = <<"0">>
    /\ current_path = <<"files", "d">>
    /\ Len(calls) = 4 /\ calls[4] = calls[3]
    /\ \A i \in 1..Len(calls) : calls[i].op = "list"

\* ---- more vocabulary ----
LastCall == calls[Len(calls)]
NoItemsMsgs == {"no_items", "no_items_go_up"}
\* the line typed in this step is the numeral of an entry, and that entry
Selects == Typed /\ NavMode /\ IsIndexNumeral(choice', Len(items))
Selected == items[IndexOf(choice')]
Under(d, f) == Len(f) > Len(d) /\ \A i \in 1..Len(d) : f[i] = d[i]

\* C5: in both modes, an empty listing at the top of the loop is reported and
\* then leads to the parent directory when the current path is not the root,
\* and ends the session only at the root.
C5_EmptyListingPops ==
    [][(NavMode /\ pc = "list" /\ calls' # calls /\ items' = <<>>)
         => (/\ console'[Len(console')].msg \in NoItemsMsgs
             /\ IF current_path = Root
                THEN pc' = "done"
                ELSE pc' = "list" /\ current_path' = DropLast(current_path))]_vars

\* C6: a selected file is, in download mode, read with one remote call and
\* written to the working directory, after which the session ends; in delete
\* mode it leads to the confirmation prompt, and after the answer (one delete
\* call on "y", none on "n") the loop goes on with the same current path.
C6_FileSelected ==
    /\ [][(Selects /\ Selected.type = "file" /\ mode = "download")
            => (/\ calls' = Append(calls, ReadCall(Selected.path, TRUE))
                /\ store' = store
                /\ \/ /\ pc' = "done"
                      /\ DOMAIN local' = DOMAIN local \cup {<<Selected.name>>}
                      /\ local'[<<Selected.name>>] = store[Selected.path]
                   \/ /\ pc' = "overwrite"
                      /\ <<Selected.name>> \in DOMAIN local /\ local' = local)]_vars
    /\ [][(pc = "overwrite" /\ stack = <<>>) => (pc' = "done" /\ calls' = calls)]_vars
    /\ [][(Selects /\ Selected.type = "file" /\ mode = "delete")
            => (pc' = "confirm_file" /\ selected_item' = Selected
                /\ calls' = calls /\ store' = store)]_vars
    /\ [][(pc = "confirm_file")
            => (/\ pc' = "list" /\ current_path' = current_path
                /\ \/ calls' = calls /\ store' = store
                   \/ /\ calls' = Append(calls, DeleteCall(selected_item.path,
                                                           selected_item.sha, TRUE))
                      /\ DOMAIN store' = DOMAIN store \ {selected_item.path})]_vars

\* two files deleted one after the other in one session, the loop still running
C6_Witness ==
    /\ mode = "delete" /\ pc = "prompt" /\ stack = <<>>
    /\ Len(calls) = 5
    /\ calls[2].op = "delete" /\ calls[2].ok
    /\ calls[4].op = "delete" /\ calls[4].ok
    /\ calls[5] = ListCall(current_path, TRUE)

\* C7: a selected directory leads to a question; the answer "n" makes the
\* directory the current path with no remote call; the answer "y" (confirmed a
\* second time in delete mode) starts the mode's walk on the selected path, the
\* walk issues reads in download mode and deletes in delete mode, and once
\* the walk has started the loop never lists or prompts again: the session ends
\* when the walk returns.
C7_DirectorySelected ==
    /\ [][(Selects /\ Selected.type = "dir")
            => (pc' = "ask_dir" /\ selected_item' = Selected
                /\ calls' = calls /\ store' = store /\ local' = local)]_vars
    /\ [][(pc = "ask_dir")
            => \/ /\ pc' = "list" /\ current_path' = selected_item.path
                  /\ calls' = calls /\ store' = store /\ local' = local
               \/ /\ mode = "delete" /\ pc' = "confirm_dir"
                  /\ calls' = calls /\ store' = store
               \/ /\ mode = "download" /\ pc' = "walk"]_vars
    /\ [][(pc \in {"ask_dir", "confirm_dir"} /\ pc' = "walk")
            => (/\ Len(stack') = 1 /\ stack'[1].dir = selected_item.path
                /\ calls' = Append(calls, ListCall(selected_item.path, TRUE)))]_vars
    /\ [][(pc \in {"walk", "overwrite"}) => (pc' \in {"walk", "overwrite", "done"})]_vars
    /\ [][(pc = "walk" /\ calls' # calls)
            => (/\ calls' = Append(calls, calls'[Len(calls')])
                /\ calls'[Len(calls')].op \in
                     (IF mode = "download" THEN {"list", "read"} ELSE {"list", "delete"})
                /\ Under(selected_item.path, calls'[Len(calls')].path))]_vars
    /\ [][pc # "done"]_vars

\* a bulk download that has ended the session: the walk's list, then reads only
C7_Witness ==
    /\ mode = "download" /\ pc = "done" /\ selected_item.type = "dir"
    /\ ninputs = 1 /\ Len(calls) >= 4
    /\ calls[2] = ListCall(selected_item.path, TRUE)
    /\ \E i \in 3..Len(calls) : calls[i].op = "read"

\* ---- the calls of a finished delete_directory_recursive(selected path) ----
WalkDone ==
    /\ mode = "delete" /\ pc = "done" /\ selected_item.type = "dir"
    /\ console # <<>> /\ console[Len(console)] = Msg("dir_deleted", selected_item.path)
WalkStart ==
    CHOOSE k \in 1..Len(calls) :
        /\ calls[k].op = "list" /\ calls[k].path = selected_item.path
        /\ \A j \in (k + 1)..Len(calls) :
              ~(calls[j].op = "list" /\ calls[j].path = selected_item.path)
WalkIdx == (WalkStart + 1)..Len(calls)
DeletesOf(f) == { i \in WalkIdx : calls[i].op = "delete" /\ calls[i].path = f }
\* the files the directory held when the walk started: those still there and
\* those the walk removed (no other client removes files)
WalkedFiles ==
    { f \in DOMAIN store : Under(selected_item.path, f) }
      \cup { calls[i].path : i \in { j \in WalkIdx : calls[j].op = "delete" /\ calls[j].ok } }

\* C8: when delete_directory_recursive has returned, it has issued exactly one
\* delete call for every file the directory held at any depth, with the file's
\* path and its listed sha, every one of its delete calls is addressed to such
\* a file (none to a directory), and no file is left in the directory.
C8_DeleteTreeCalls ==
    WalkDone =>
        /\ \A f \in WalkedFiles :
              /\ Cardinality(DeletesOf(f)) = 1
              /\ \A i \in DeletesOf(f) : calls[i].sha = InitSha(f) /\ calls[i].ok
        /\ \A i \in WalkIdx : calls[i].op = "delete" => calls[i].path \in WalkedFiles
        /\ \A i \in WalkIdx : calls[i].op \in {"delete", "list"}
        /\ ~\E f \in DOMAIN store : Under(selected_item.path, f)

\* a walk over files/d that removed a file two levels down, then a sibling of
\* the subdirectory
C8_Witness ==
    /\ WalkDone /\ selected_item.path = <<"files", "d">>
    /\ \E i, j \in WalkIdx :
          /\ i < j
          /\ calls[i] = DeleteCall(<<"files", "d", "d", "a">>, 41, TRUE)
          /\ calls[j] = DeleteCall(<<"files", "d", "z">>, 32, TRUE)
    /\ Cardinality({ i \in WalkIdx : calls[i].op = "delete" }) = 4

\* C9: a delete call that carries a sha other than the file's current one
\* fails and leaves the file in the repository; the failure is printed and the
\* walk goes on with the next entry, so that when the walk has returned every
\* file of the directory has had exactly one delete call, and exactly those
\* whose call failed are still there.
C9_StaleShaSkipped ==
    /\ [][(/\ Len(calls') = Len(calls) + 1
           /\ calls'[Len(calls')].op = "delete"
           /\ calls'[Len(calls')].path \in DOMAIN store
           /\ store[calls'[Len(calls')].path] # calls'[Len(calls')].sha)
            => (/\ ~calls'[Len(calls')].ok
                /\ store' = store
                /\ console'[Len(console')] = Msg("delete_error", calls'[Len(calls')].path)
                /\ pc = "walk" => (/\ pc' = "walk"
                                   /\ Len(stack') = Len(stack)
                                   /\ stack'[1].i = stack[1].i + 1
                                   /\ stack'[1].items = stack[1].items
                                   /\ Tail(stack') = Tail(stack))
                /\ pc = "confirm_file" => (pc' = "list" /\ current_path' = current_path))]_vars
    /\ [](WalkDone =>
            \A f \in WalkedFiles :
               /\ Cardinality(DeletesOf(f)) = 1
               /\ \A i \in DeletesOf(f) : (f \in DOMAIN store) = ~calls[i].ok)

\* a walk in which the delete of files/d/a failed on a changed sha, the file is
\* still there, and the entries after it were deleted
C9_Witness ==
    /\ WalkDone /\ selected_item.path = <<"files", "d">>
    /\ <<"files", "d", "a">> \in DOMAIN store
    /\ store[<<"files", "d", "a">>] = 131
    /\ \E i, j, k \in WalkIdx :
          /\ i < j /\ j < k
          /\ calls[i] = DeleteCall(<<"files", "d", "a">>, 31, FALSE)
          /\ calls[j] = DeleteCall(<<"files", "d", "d", "z">>, 42, TRUE)
          /\ calls[k] = DeleteCall(<<"files", "d", "z">>, 32, TRUE)

DownloadWalkDone ==
    /\ mode = "download" /\ pc = "done" /\ selected_item.type = "dir"
    /\ \E i \in 1..Len(console) : console[i] = Msg("download_start", selected_item.path)
\* the path of f relative to the directory d
RelTo(d, f) == SubSeq(f, Len(d) + 1, Len(f))
\* where the file f of the downloaded directory belongs in the working directory
MirrorPath(f) == <<selected_item.name>> \o RelTo(selected_item.path, f)

\* C11: when download_directory has returned, started on an empty working
\* directory, every file the selected directory holds at any depth is in the
\* working directory at <directory name>/<path relative to the directory>,
\* with the content it has in the repository.
C11_DownloadTreeMirrors ==
    (DownloadWalkDone /\ ltree.files = {}) =>
        \A f \in DOMAIN store :
            Under(selected_item.path, f)
              => (MirrorPath(f) \in DOMAIN local /\ local[MirrorPath(f)] = store[f])

ReadsOf(f) == { i \in 1..Len(calls) : calls[i].op = "read" /\ calls[i].path = f }

\* C12: a download changes the content of a file that is already in the
\* working directory only at the overwrite question, and only into the content
\* just read; after the question the file is either untouched (declined) or
\* replaced, no remote call is made, and the walk goes on where it stood, so
\* that when download_directory has returned every file of the directory has
\* been read once, declined or not.
C12_OverwriteOnlyOnYes ==
    /\ [][(pc # "overwrite")
            => \A p \in DOMAIN local : p \in DOMAIN local' /\ local'[p] = local[p]]_vars
    /\ [][(pc = "overwrite")
            => (/\ calls' = calls /\ store' = store /\ stack' = stack
                /\ pc' = (IF stack = <<>> THEN "done" ELSE "walk")
                /\ \/ /\ local' = local
                      /\ console'[Len(console')].msg = "download_cancelled"
                   \/ /\ DOMAIN local' = DOMAIN local
                      /\ local'[pending.path] = pending.content
                      /\ \A p \in DOMAIN local \ {pending.path} : local'[p] = local[p]
                      /\ console'[Len(console')].msg = "download_ok")]_vars
    /\ [](DownloadWalkDone =>
            \A f \in DOMAIN store :
                Under(selected_item.path, f) => Cardinality(ReadsOf(f)) = 1)

\* files/d downloaded into a working directory that held d/a: the overwrite was
\* declined, d/a kept its content, and d/z, listed after it, was written
C12_Witness ==
    /\ DownloadWalkDone /\ selected_item.path = <<"files", "d">>
    /\ ltree = UsedCwd
    /\ DOMAIN store = { <<"files", "d", "a">>, <<"files", "d", "z">> }
    /\ Printed("download_cancelled")
    /\ local[<<"d", "a">>] = LocalContent(<<"d", "a">>)
    /\ <<"d", "z">> \in DOMAIN local /\ local[<<"d", "z">>] = store[<<"files", "d", "z">>]

\* ---- vocabulary of the resolution ----
\* the names the file commands look at
TenNames == { "fown-archive", "fown-archive1", "fown-archive2", "fown-archive3",
              "fown-archive4", "fown-archive5", "fown-archive6", "fown-archive7",
              "fown-archive8", "fown-archive9" }
Owned == DOMAIN account.config
\* .fown/config.yml parses to a mapping with default_repository == true
Marked(r) == r \in Owned /\ account.config[r] = "marked"
\* .fown/config.yml is there and is not a mapping
Malformed(r) ==
    r \in Owned /\ account.config[r] \in {"undecodable", "bad_yaml", "non_mapping", "empty"}
\* find_default_archive_repo is over: it has returned or raised
ResolveEnded == pc \notin {"start", "resolve"}
NotFound == [found |-> FALSE, repo_name |-> "None", owner |-> "None"]

\* C13: once find_default_archive_repo is over, a result with found = true
\* names the user and a repository the user owns whose config is marked; when
\* the user is unknown or none of the candidates is marked the result is
\* NotFound; and with exactly fown-archive and fown-archive1 owned, the second
\* one alone marked, the result is (user, fown-archive1).
C13_ResolveResult ==
    ResolveEnded =>
        /\ resolved.found
             => (account.user /\ resolved.owner = "user" /\ Marked(resolved.repo_name))
        /\ (~account.user \/ ~\E r \in TenNames : Marked(r))
             => (pc # "raised" /\ resolved = NotFound)
        /\ (/\ account.user /\ Owned = {"fown-archive", "fown-archive1"}
            /\ ~Marked("fown-archive") /\ Marked("fown-archive1"))
             => resolved = [found |-> TRUE, repo_name |-> "fown-archive1", owner |-> "user"]

\* C14: a candidate whose config is malformed is passed over: the step that
\* requests its config neither ends nor aborts the resolution, which goes on
\* with the candidates after it.
C14_MalformedSkipped ==
    [][(Len(rcalls') = Len(rcalls) + 1 /\ Malformed(rcalls'[Len(rcalls')]))
         => (pc' = "resolve" /\ resolved' = resolved /\ ri' > ri)]_vars

\* C15: when find_default_archive_repo has not found a repository (the user is
\* unknown, no candidate is owned, or none is marked), the command has issued
\* no list, read, write or delete call, has not entered the navigation loop
\* (no path browsed, no listing held, no line read) nor an upload, and it
\* can only end.
C15_NoRepositoryNoCalls ==
    /\ [](( ResolveEnded /\ ~resolved.found)
            => (/\ calls = <<>>
                /\ pc \in {"resolved", "done", "raised"}
                /\ current_path = NonePath /\ items = <<>> /\ ninputs = 0
                /\ stack = <<>> /\ uproots = <<>> /\ upfiles = {}))
    /\ [][(pc = "resolved" /\ ~resolved.found)
            => (pc' = "done" /\ store' = store /\ local' = local
                /\ console'[Len(console')].msg = "no_archive_repo")]_vars

\* a delete command that ended after two candidates, neither of them marked
C15_Witness ==
    /\ mode = "delete" /\ pc = "done" /\ account.user
    /\ Owned = {"fown-archive", "fown-archive1"}
    /\ account.config["fown-archive"] = "unmarked"
    /\ account.config["fown-archive1"] = "absent"
    /\ rcalls = <<"fown-archive", "fown-archive1">>
    /\ resolved = NotFound /\ calls = <<>>
    /\ Printed("no_archive_repo")

\* a delete call is issued in this step
DeleteIssued ==
    Len(calls') = Len(calls) + 1 /\ calls'[Len(calls')].op = "delete"

\* C16: a delete call is issued only in delete mode, either by the step that
\* answers "y" to the confirmation of the selected file, for that file, or by
\* the walk of a selected directory whose confirmation was answered "y", for a
\* file below that directory; the walk starts only with that answer, and a
\* step taken at a question never issues a delete unless it is that answer.
C16_DeleteAfterYes ==
    /\ [][DeleteIssued
            => (/\ mode = "delete"
                /\ \/ /\ pc = "confirm_file" /\ confirm' = "y"
                      /\ calls'[Len(calls')].path = selected_item.path
                   \/ /\ pc = "walk" /\ confirm = "y" /\ selected_item.type = "dir"
                      /\ Under(selected_item.path, calls'[Len(calls')].path))]_vars
    /\ [][(mode = "delete" /\ pc # "walk" /\ pc' = "walk")
            => (pc = "confirm_dir" /\ confirm' = "y"
                /\ stack'[1].dir = selected_item.path)]_vars
    /\ [][(mode = "delete" /\ pc \in {"prompt", "ask_dir", "confirm_dir", "confirm_file"}
           /\ confirm' # "y")
            => calls' = calls]_vars
    /\ []((mode = "delete" /\ pc \in {"prompt", "ask_dir", "confirm_dir", "confirm_file"})
            => stack = <<>>)

\* a file deleted after "y", then the deletion of a second file declined
C16_Witness ==
    /\ mode = "delete" /\ pc = "list" /\ confirm = "n" /\ ninputs = 2
    /\ Len(calls) = 3
    /\ calls[2].op = "delete" /\ calls[2].ok
    /\ selected_item.path \in DOMAIN store

\* ---- the end of a navigation session ----
SessionRunning ==
    NavMode /\ pc \in {"list", "prompt", "ask_dir", "confirm_dir", "confirm_file",
                       "walk", "overwrite"}
SessionEnds == SessionRunning /\ pc' \notin {"list", "prompt", "ask_dir", "confirm_dir",
                                              "confirm_file", "walk", "overwrite"}
\* the step is the line "q" typed at the selection prompt
ByQuit == pc = "prompt" /\ ninputs' = ninputs + 1 /\ choice' = Q
\* the step completes a terminal action: the walk of the selected directory
\* returns, or the selected file has been downloaded (or its overwrite answered)
ByTerminalAction ==
    \/ pc = "walk" /\ stack' = <<>> /\ selected_item.type = "dir"
    \/ /\ mode = "download" /\ pc = "prompt" /\ ninputs' = ninputs + 1
       /\ selected_item'.type = "file"
       /\ calls' = Append(calls, ReadCall(selected_item'.path, TRUE))
    \/ mode = "download" /\ pc = "overwrite" /\ stack = <<>>
\* the step is the line "b" typed at the prompt of the root
ByBackAtRoot == pc = "prompt" /\ ninputs' = ninputs + 1 /\ choice' = B /\ current_path = Root
\* the step lists the root and finds nothing
ByEmptyRoot ==
    /\ pc = "list" /\ current_path = Root
    /\ calls' = Append(calls, ListCall(Root, FALSE)) /\ items' = <<>>

CommandOver == pc \in {"done", "raised"}
ItemOps == {"read", "write", "delete"}
\* the item operations of the command that failed
FailedItems == { i \in 1..Len(calls) : calls[i].op \in ItemOps /\ ~calls[i].ok }
\* the command ran a tree walk to its end
WalkOver ==
    /\ pc = "done"
    /\ \/ mode = "upload" /\ ltree.isdir /\ resolved.found
       \/ WalkDone
       \/ DownloadWalkDone

\* C18: when a command that ran a tree walk is over, its exit status is
\* non-zero exactly when at least one item operation of the walk failed.
C18_StatusReflectsFailures ==
    WalkOver => ((exit_status(pc) # 0) <=> (Cardinality(FailedItems) > 0))

\* C19: when a command is over and its resolution failed, or one of its remote
\* operations failed, it has printed a message and its exit status is non-zero.
C19_FailureExitsNonZero ==
    (CommandOver /\ (~resolved.found \/ FailedItems # {}))
        => (console # <<>> /\ exit_status(pc) # 0)

\* a list call is issued in this step, for this path
ListIssued == Len(calls') = Len(calls) + 1 /\ calls'[Len(calls')].op = "list"
ListedPath == calls'[Len(calls')].path
\* the path is a directory of the repository
ExistsAsDir(p) == \E f \in DOMAIN store : Under(p, f)

\* C20: a list of a path that does not exist (or is not a directory) is not
\* taken by the caller for the listing of an empty directory: the loop does
\* not get an empty listing and report "no items".
C20_MissingIsNotEmpty ==
    [][(ListIssued /\ NavMode /\ pc = "list" /\ ~ExistsAsDir(ListedPath))
         => ~(items' = <<>> /\ console'[Len(console')].msg \in NoItemsMsgs)]_vars

\* the path is "files" or lies below it
AtOrBelowRoot(p) == Len(p) >= 1 /\ p[1] = "files"

\* C21: a navigation session starts with the root as its current path, and
\* from then on, whatever is typed and whatever the listings hold, the
\* current path is the root or a path below it; a step never shortens it
\* by more than its last segment.
C21_CurrentPathBelowRoot ==
    /\ [](SessionRunning => AtOrBelowRoot(current_path))
    /\ []((NavMode /\ pc = "done" /\ resolved.found) => AtOrBelowRoot(current_path))
    /\ [][(NavMode /\ pc = "resolved" /\ pc' # "done") => current_path' = <<"files">>]_vars
    /\ [][(SessionRunning /\ Len(current_path') < Len(current_path))
            => (current_path # <<"files">> /\ current_path' = DropLast(current_path))]_vars

\* a delete session that emptied files/d and was taken back up to the root
C21_Witness ==
    /\ mode = "delete" /\ pc = "prompt" /\ current_path = <<"files">>
    /\ Len(calls) >= 3
    /\ calls[Len(calls)] = ListCall(<<"files">>, TRUE)
    /\ calls[Len(calls) - 1] = ListCall(<<"files", "d">>, FALSE)
    /\ calls[Len(calls) - 2].op = "delete"

\* ---- what a listing of the current path must hold, read off the repository ----
FilesBelow(p) == { f \in DOMAIN store : Under(p, f) }
ChildrenOf(p) == { SubSeq(f, 1, Len(p) + 1) : f \in FilesBelow(p) }
ItemPaths == { items[i].path : i \in 1..Len(items) }
\* items is the listing of the current path as the repository stands
ItemsFresh ==
    /\ ItemPaths = ChildrenOf(current_path)
    /\ Len(items) = Cardinality(ChildrenOf(current_path))
    /\ \A i \in 1..Len(items) :
          IF items[i].path \in DOMAIN store
          THEN items[i].type = "file" /\ items[i].sha = store[items[i].path]
          ELSE items[i].type = "dir"

\* C22: every iteration of the loop issues exactly one list call, for the
\* current path, and a prompt is reached only through that call; the listing
\* held at a prompt is the listing of the current path as the repository
\* stands, so a file whose delete succeeded is not in it.
C22_FreshListing ==
    /\ [][(NavMode /\ pc = "list")
            => (/\ Len(calls') = Len(calls) + 1
                /\ calls'[Len(calls')].op = "list"
                /\ calls'[Len(calls')].path = current_path
                /\ \A i \in 1..Len(calls) : calls'[i] = calls[i])]_vars
    /\ [][(NavMode /\ pc' = "prompt") => pc = "list"]_vars
    /\ []((NavMode /\ pc = "prompt") => ItemsFresh)
    /\ []((mode = "delete" /\ pc = "prompt")
            => \A i \in 1..Len(calls) :
                  (calls[i].op = "delete" /\ calls[i].ok) => calls[i].path \notin ItemPaths)

\* files/a deleted, and the next prompt of the root shows what is left
C22_Witness ==
    /\ mode = "delete" /\ pc = "prompt" /\ current_path = <<"files">>
    /\ Len(calls) = 3
    /\ calls[2] = DeleteCall(<<"files", "a">>, InitSha(<<"files", "a">>), TRUE)
    /\ calls[3] = ListCall(<<"files">>, TRUE)
    /\ ItemPaths = { <<"files", "d">>, <<"files", "z">> }

\* the place of a name in the order the remote store returns entries
RemoteRank(n) == CHOOSE k \in 1..3 : <<"a", "d", "z">>[k] = n
\* the remote call made in this step, if one is made
NewCall == calls'[Len(calls')]

\* C23: at a prompt the screen shows one row per entry of the listing, row i
\* numbered i and naming the i-th entry, the entries being in the order the
\* remote store returned them; the numeral n selects the n-th entry; and the
\* questions, calls and moves that follow concern that entry alone: a call is
\* addressed to its path (or, in a walk, below it), a descent makes its path
\* the current path, a single download writes the file of its name.
C23_NthEntrySelected ==
    /\ []((NavMode /\ pc = "prompt")
            => (/\ Len(console) = Len(items)
                /\ \A i \in 1..Len(items) :
                      console[i] = Msg("row", <<i, items[i].name, items[i].type>>)
                /\ \A i, j \in 1..Len(items) :
                      i < j => RemoteRank(items[i].name) < RemoteRank(items[j].name)))
    /\ [][Selects
            => (/\ selected_item' = items[IndexOf(choice')]
                /\ calls' # calls => NewCall.path = selected_item'.path
                /\ \A p \in DOMAIN local' :
                      (p \notin DOMAIN local \/ local'[p] # local[p]) => p = <<selected_item'.name>>
                /\ current_path' = current_path)]_vars
    /\ [][(NavMode /\ pc \in {"ask_dir", "confirm_dir", "confirm_file", "walk", "overwrite"})
            => (/\ selected_item' = selected_item
                /\ current_path' \in {current_path, selected_item.path}
                /\ (Len(calls') > Len(calls))
                     => (NewCall.path = selected_item.path
                         \/ Under(selected_item.path, NewCall.path)))]_vars

\* the third row of the root's menu chosen: files/z is read and written to z
C23_Witness ==
    /\ mode = "download" /\ pc = "done" /\ choice = <<"3">> /\ ninputs = 1
    /\ Len(items) = 3 /\ selected_item = items[3]
    /\ selected_item.path = <<"files", "z">>
    /\ calls = <<ListCall(<<"files">>, TRUE), ReadCall(<<"files", "z">>, TRUE)>>
    /\ ltree.files = {} /\ DOMAIN local = { <<"z">> }

\* ---- a finished upload_directory ----
UploadWalkDone == mode = "upload" /\ pc = "done" /\ ltree.isdir /\ resolved.found
RemoteOf(f) == <<"files", "proj">> \o f
WritesOf(f) == { i \in 1..Len(calls) : calls[i].op = "write" /\ calls[i].path = RemoteOf(f) }
\* the upload of f failed: it could not be read, or its write was refused
UploadFailed(f) ==
    f \in ltree.unreadable \/ \E i \in WritesOf(f) : ~calls[i].ok

\* C24: a file that cannot be read, or whose write fails, is reported and the
\* walk goes on where it stood; a file once written stays written; and when
\* upload_directory has returned, whatever failed, every readable file of the
\* tree has had its one write call, every file whose write succeeded is in the
\* repository, and every failed file has its error line.
C24_UploadFailureSkipped ==
    /\ [][(mode = "upload" /\ pc = "upload" /\ upfiles # {})
            => (/\ pc' = "upload" /\ uproots' = uproots
                /\ \E f \in upfiles : upfiles' = upfiles \ {f}
                /\ \A p \in DOMAIN store : p \in DOMAIN store' /\ store'[p] = store[p])]_vars
    /\ [](UploadWalkDone =>
            \A f \in ltree.files :
                /\ f \notin ltree.unreadable => Cardinality(WritesOf(f)) = 1
                /\ UploadFailed(f)
                     => (\E i \in 1..Len(console) : console[i] = Msg("upload_error", f))
                /\ ~UploadFailed(f) => RemoteOf(f) \in DOMAIN store)

\* a tree of three files: a cannot be read, the write of d/a fails, d/z is there
C24_Witness ==
    /\ UploadWalkDone
    /\ ltree.files = { <<"a">>, <<"d", "a">>, <<"d", "z">> }
    /\ ltree.unreadable = { <<"a">> }
    /\ Len(calls) = 2
    /\ \E i \in 1..2 : calls[i] = WriteCall(<<"files", "proj", "d", "a">>, FALSE)
    /\ DOMAIN store = { <<"files", "proj", "d", "z">> }

\* ---- the return of one delete_directory_recursive(d) ----
OnScreen(m) == \E i \in 1..Len(console) : console[i] = m
\* the walk of d returns in this step
WalkReturns(d) ==
    /\ mode = "delete" /\ pc = "walk"
    /\ Len(console') = Len(console) + 1
    /\ console'[Len(console')] = Msg("dir_deleted", d)
\* the delete call of the listed file f has been issued and its outcome printed
DeleteCompleted(f) ==
    /\ \E i \in 1..Len(calls) : calls[i].op = "delete" /\ calls[i].path = f
    /\ OnScreen(Msg("delete_ok", f)) \/ OnScreen(Msg("delete_error", f))

\* C25: when the walk of a directory d returns, every file its listing showed
\* has had its delete call with the outcome printed, the walk of every
\* subdirectory its listing showed has returned before, and the walk of no
\* directory under d is still open; and no delete call is issued for a file
\* under a directory whose walk has returned.
C25_ChildrenBeforeReturn ==
    /\ [][\A d \in { stack[k].dir : k \in 1..Len(stack) } :
            WalkReturns(d) =>
              /\ Head(stack).dir = d
              /\ \A k \in 1..Len(Head(stack).items) :
                    LET item == Head(stack).items[k] IN
                    IF item.type = "dir"
                    THEN OnScreen(Msg("dir_deleted", item.path))
                    ELSE DeleteCompleted(item.path)
              /\ \A k \in 1..Len(stack') : ~Under(d, stack'[k].dir) /\ stack'[k].dir # d]_vars
    /\ [][(Len(calls') = Len(calls) + 1 /\ NewCall.op = "delete")
            => ~\E d \in { SubSeq(NewCall.path, 1, j) : j \in 1..Len(NewCall.path) } :
                  Under(d, NewCall.path) /\ OnScreen(Msg("dir_deleted", d))]_vars

\* the walk of files/d/d has returned, the delete of its file refused and
\* reported, and the walk of files/d now deletes files/d/z
C25_Witness ==
    /\ mode = "delete" /\ pc = "walk" /\ Len(stack) = 1
    /\ Head(stack).dir = <<"files", "d">>
    /\ OnScreen(Msg("dir_deleted", <<"files", "d", "d">>))
    /\ OnScreen(Msg("delete_error", <<"files", "d", "d", "a">>))
    /\ <<"files", "d", "z">> \in DOMAIN store
    /\ Head(stack).i <= Len(Head(stack).items)
    /\ Head(stack).items[Head(stack).i].path = <<"files", "d", "z">>

\* ---- the substring scan: if "fown-archive" in repo["name"] ----
\* the names, among those an account may own here, that contain "fown-archive"
ContainsArchiveName(r) == r \in TenNames \cup {"fown-archive42"}

\* C26: when the user is known and exactly one owned repository whose name
\* contains "fown-archive" is marked, the others having no config or an
\* unmarked mapping, the resolution of a file command returns that
\* repository, fown-archive42 as well as one of the ten numbered names.
C26_SubstringScanResolves ==
    \A r \in Owned :
        (/\ pc = "resolved" /\ account.user
         /\ ContainsArchiveName(r) /\ Marked(r)
         /\ \A o \in Owned \ {r} : account.config[o] \in {"absent", "unmarked"})
          => resolved = [found |-> TRUE, repo_name |-> r, owner |-> "user"]

\* ---- a declined confirmation ----
\* the step answers "n" to the confirmation of a file, or to the second
\* confirmation of a directory (asked after "y" to "delete all")
Declines ==
    /\ mode = "delete" /\ pc \in {"confirm_file", "confirm_dir"}
    /\ confirm = "" /\ confirm' = "n"

\* C27: a step that declines a confirmation issues no call, leaves the
\* repository as it is and leaves current_path as it is, and the loop goes on
\* to list that same path; the second confirmation of a directory is asked
\* only after "y" to the first question.
C27_DeclineChangesNothing ==
    /\ [][Declines
            => (/\ calls' = calls /\ store' = store
                /\ current_path' = current_path /\ pc' = "list"
                /\ stack' = <<>>)]_vars
    /\ [][(mode = "delete" /\ pc # "confirm_dir" /\ pc' = "confirm_dir")
            => (pc = "ask_dir" /\ selected_item.type = "dir")]_vars

\* inside files/d, the deletion of the directory files/d/d asked for and
\* declined at the second confirmation
C27_Witness ==
    /\ mode = "delete" /\ pc = "list" /\ confirm = "n"
    /\ current_path = <<"files", "d">>
    /\ selected_item.path = <<"files", "d", "d">> /\ selected_item.type = "dir"
    /\ <<"files", "d", "d", "a">> \in DOMAIN store
    /\ \A i \in 1..Len(calls) : calls[i].op = "list"

\* ---- the ascent of the delete loop over emptied directories ----
\* the j-th ancestor of p
Ancestor(p, j) == SubSeq(p, 1, Len(p) - j)
\* the j calls after calls[k] are list calls that found nothing
EmptyRun(k, j) ==
    /\ k + j <= Len(calls)
    /\ \A m \in 1..j : calls[k + m].op = "list" /\ ~calls[k + m].ok
\* the step is an iteration of the delete loop: one list call, of current_path
DeleteIteration ==
    /\ mode = "delete" /\ pc = "list"
    /\ calls' = Append(calls, NewCall)
    /\ NewCall.op = "list" /\ NewCall.path = current_path

\* C28: an iteration of the delete loop that lists nothing goes up one level,
\* to be followed by the next iteration, or ends the session at the root; one
\* that lists something prompts at the path it listed. After the delete of a
\* file in a directory p the empty listings that follow are those of p, of
\* its parent, and so on upwards, one list call each, and there are at most
\* as many as p has components.
C28_AscentAfterLastFile ==
    /\ [][(mode = "delete" /\ pc = "list") => DeleteIteration]_vars
    /\ [][(DeleteIteration /\ ~NewCall.ok)
            => IF current_path = <<"files">>
               THEN pc' = "done"
               ELSE pc' = "list" /\ current_path' = DropLast(current_path)]_vars
    /\ [][(DeleteIteration /\ NewCall.ok)
            => (pc' = "prompt" /\ current_path' = current_path /\ items' # <<>>)]_vars
    /\ [](mode = "delete" =>
           \A k \in 1..Len(calls) :
              calls[k].op = "delete" =>
                 \A j \in 1..(Len(calls) - k) :
                    EmptyRun(k, j) =>
                       /\ j <= Len(DropLast(calls[k].path))
                       /\ calls[k + j].path = Ancestor(DropLast(calls[k].path), j - 1))

\* the only file of the repository, files/d/d/a, deleted from inside
\* files/d/d: three empty listings, up to the root, end the session
C28_Witness ==
    /\ mode = "delete" /\ pc = "done" /\ Len(calls) = 7
    /\ calls[4].op = "delete" /\ calls[4].path = <<"files", "d", "d", "a">> /\ calls[4].ok
    /\ calls[5] = ListCall(<<"files", "d", "d">>, FALSE)
    /\ calls[6] = ListCall(<<"files", "d">>, FALSE)
    /\ calls[7] = ListCall(<<"files">>, FALSE)

\* ---- the identity sent with a delete ----
\* the listing a delete call takes its file from: the one of the loop's
\* current iteration, or the one of the innermost open walk
ListingInHand == IF pc = "walk" THEN Head(stack).items ELSE items
\* the directory that listing is of
ListingDir == IF pc = "walk" THEN Head(stack).dir ELSE current_path
\* the listing recorded by a step that issues a list call
ListingTaken == IF pc' = "walk" THEN Head(stack').items ELSE items'
\* the index of the last list call of directory d
LastListOf(d) ==
    CHOOSE k \in 1..Len(calls) :
        /\ calls[k].op = "list" /\ calls[k].path = d
        /\ \A j \in (k + 1)..Len(calls) : ~(calls[j].op = "list" /\ calls[j].path = d)

\* C29: a listing taken in delete mode records for each file the sha the
\* repository holds at that moment; every delete call sends the sha that the
\* listing in hand, which is of the file's parent directory and is the last
\* listing taken of it, records for the file; and as long as no other client
\* has changed the repository the sha is the current one and the delete
\* succeeds.
C29_ListedIdentitySent ==
    /\ [][(mode = "delete" /\ ListIssued)
            => \A i \in 1..Len(ListingTaken) :
                  ListingTaken[i].type = "file"
                    => (/\ ListingTaken[i].path \in DOMAIN store
                        /\ ListingTaken[i].sha = store[ListingTaken[i].path]
                        /\ DropLast(ListingTaken[i].path) = ListedPath)]_vars
    /\ [][DeleteIssued
            => (/\ ListingDir = DropLast(NewCall.path)
                /\ \E i \in 1..Len(ListingInHand) :
                      /\ ListingInHand[i].path = NewCall.path
                      /\ ListingInHand[i].sha = NewCall.sha
                /\ \A j \in (LastListOf(ListingDir) + 1)..Len(calls) :
                      calls[j].op = "delete" \/ Under(ListingDir, calls[j].path))]_vars
    /\ [][(DeleteIssued /\ nmut = 0)
            => (NewCall.sha = store[NewCall.path] /\ NewCall.ok)]_vars

\* the walk of files/d deletes files/d/z with the sha 32 its listing
\* recorded, after it has listed and emptied files/d/d
C29_Witness ==
    /\ mode = "delete" /\ pc = "walk" /\ nmut = 0
    /\ calls # <<>>
    /\ calls[Len(calls)] = DeleteCall(<<"files", "d", "z">>, 32, TRUE)
    /\ \E k \in 1..Len(calls) : calls[k] = ListCall(<<"files", "d", "d">>, TRUE)

\* ---- the steps a walk has left ----
\* the steps the walk of directory d takes once it has listed it: one for
\* each entry, two for a file (the second is the overwrite question, which
\* may not be asked), the walk of each subdirectory, and the return
RECURSIVE WalkCost(_), CostOf(_)
CostOf(S) ==
    IF S = {} THEN 0
    ELSE LET c == CHOOSE x \in S : TRUE
         IN (IF c \in DOMAIN store THEN 2 ELSE 1 + WalkCost(c)) + CostOf(S \ {c})
WalkCost(d) == CostOf(ChildrenOf(d)) + 1
\* the steps the walk in progress has left: for each open frame, its items
\* not yet visited and its return
RECURSIVE FramesCost(_)
FramesCost(st) ==
    IF st = <<>> THEN 0
    ELSE LET fr == Head(st) IN
         CostOf({ fr.items[j].path : j \in fr.i..Len(fr.items) }) + 1 + FramesCost(Tail(st))
Variant == FramesCost(stack) + (IF pc = "overwrite" THEN 1 ELSE 0)
Walking == NavMode /\ selected_item.type = "dir" /\ stack # <<>> /\ pc \in {"walk", "overwrite"}
\* the directories of the walked tree: the selected one and those the walked
\* files lie in, below it
DirsOf(F) ==
    { selected_item.path }
      \cup UNION { { SubSeq(f, 1, j) : j \in (Len(selected_item.path) + 1)..(Len(f) - 1) } :
                    f \in F }
ListsOf(d) ==
    { i \in WalkStart..Len(calls) : calls[i].op = "list" /\ calls[i].path = d }

\* C30: every step of a walk in progress lowers the number of steps the walk
\* has left, which is never negative, so the walk ends; a frame whose listing
\* is empty returns at once, without a call and without an error; and when
\* download_directory or delete_directory_recursive has returned, it has
\* issued exactly one list call for the selected directory and for each
\* directory below it, and none for any other path.
C30_WalkTerminatesOneListEach ==
    /\ [][Walking => (Variant' < Variant /\ Variant' >= 0)]_vars
    /\ [][(Walking /\ pc = "walk" /\ Head(stack).items = <<>>)
            => (/\ stack' = Tail(stack) /\ calls' = calls /\ pc' # "raised"
                /\ \/ console' = console
                   \/ console' = Append(console, Msg("dir_deleted", Head(stack).dir)))]_vars
    /\ [](DownloadWalkDone =>
            /\ \A d \in DirsOf(FilesBelow(selected_item.path)) : Cardinality(ListsOf(d)) = 1
            /\ \A i \in WalkStart..Len(calls) :
                  calls[i].op = "list" => calls[i].path \in DirsOf(FilesBelow(selected_item.path)))
    /\ [](WalkDone =>
            /\ \A d \in DirsOf(WalkedFiles) : Cardinality(ListsOf(d)) = 1
            /\ \A i \in WalkStart..Len(calls) :
                  calls[i].op = "list" => calls[i].path \in DirsOf(WalkedFiles))

\* the walk of files/d, which holds a subdirectory, has returned: two list calls
C30_Witness ==
    /\ WalkDone /\ selected_item.path = <<"files", "d">>
    /\ Cardinality(ListsOf(<<"files", "d">>)) = 1
    /\ Cardinality(ListsOf(<<"files", "d", "d">>)) = 1
    /\ Len(calls) - WalkStart = 3

\* ---- labels sync: the calls of a run ----
SyncOver == mode = "sync" /\ pc \in {"done", "raised"}
DeleteAllIssued ==
    mode = "sync" /\ Len(calls') = Len(calls) + 1 /\ NewCall.op = "delete_all_labels"
DeleteAllAt == { i \in 1..Len(calls) : calls[i].op = "delete_all_labels" }
CreateAt == { i \in 1..Len(calls) : calls[i].op = "create_label" }
\* apply_labels_to_repo creates the labels that have a name and a color
Applicable(l) == l.name # "" /\ l.color # ""
\* no source holds a label: the file of --labels-file when it is given;
\* otherwise the label files of the archive and the default config
NothingToLoad ==
    IF labels_file.given THEN labels_file.labels = <<>>
    ELSE /\ default_config = <<>>
         /\ \A k \in 1..Len(label_files) : label_files[k].labels = <<>>

\* C31: delete_all_labels is called only with a non-empty list of loaded
\* labels in hand, and as the first call of the run; the labels of the
\* target repository change only by a call; a run that could load no label
\* ends without any call; and a run that called delete_all_labels called it
\* once and ends only after apply_labels_to_repo has gone through the loaded
\* list, which is the one held at the delete: one create call, after the
\* delete, for each loaded label that has a name and a color.
C31_SyncDeletesOnlyWithLabels ==
    /\ [][DeleteAllIssued => (labels # <<>> /\ labels' = labels /\ calls = <<>>)]_vars
    /\ [][(mode = "sync" /\ repo_labels' # repo_labels) => Len(calls') = Len(calls) + 1]_vars
    /\ [][(mode = "sync" /\ calls # <<>>) => labels' = labels]_vars
    /\ []((SyncOver /\ (labels = <<>> \/ NothingToLoad)) => (calls = <<>> /\ labels = <<>>))
    /\ []((SyncOver /\ DeleteAllAt # {}) =>
            /\ pc = "done" /\ DeleteAllAt = {1}
            /\ applied = Len(labels)
            /\ Cardinality(CreateAt) = Cardinality({ k \in 1..Len(labels) : Applicable(labels[k]) })
            /\ \A k \in 1..Len(labels) :
                  Applicable(labels[k])
                    => \E i \in CreateAt : calls[i].path = <<labels[k].name>>
            /\ \A i \in CreateAt :
                  \E k \in 1..Len(labels) :
                      Applicable(labels[k]) /\ calls[i].path = <<labels[k].name>>)

\* no label in the archive, the default config used: the labels "bug" and
\* "old" deleted, then "bug" and "feat" created
C31_Witness ==
    /\ mode = "sync" /\ pc = "done" /\ ~labels_file.given
    /\ labels = << [name |-> "bug", color |-> "red"], [name |-> "feat", color |-> "blue"] >>
    /\ Len(calls) = 3 /\ calls[1].op = "delete_all_labels"
    /\ calls[2].op = "create_label" /\ calls[2].path = <<"bug">> /\ calls[2].ok
    /\ calls[3].op = "create_label" /\ calls[3].path = <<"feat">> /\ calls[3].ok
    /\ repo_labels = {"bug", "feat"}
====
